---- MODULE Spec2Model ----
(***************************************************************************)
(* A model of the Workflow graph engine of fiat (src/fiat/stages.py and    *)
(* src/fiat/core.py).  The graph is the adjacency map 'contents' of a      *)
(* Workflow: node -> set of successor nodes.  Every public method is one   *)
(* action; a method that raises leaves whatever it had already written.    *)
(*                                                                         *)
(* The module also models the Library of components (src/fiat/nodes.py),   *)
(* the Parameters of a component (src/fiat/base.py), the reading of        *)
(* connections, sections and designs out of an Outline and the execution   *)
(* of a workflow (src/fiat/workshop.py), the Director                      *)
(* (src/fiat/interface.py), Recipe.create (src/fiat/core.py) and           *)
(* Component.execute (src/fiat/nodes.py), each under a specification of    *)
(* its own.  Workflow.walk and Component.execute are also modelled one     *)
(* step at a time, under fairness, to state that they end.                 *)
(***************************************************************************)
EXTENDS Integers, Sequences, FiniteSets, TLC

VARIABLES
    contents,     \* Workflow.contents
    subclasses,   \* Library.subclasses: key -> class
    instances,    \* Library.instances: key -> object
    objects,      \* the Component objects that exist, by identity
    parameters,   \* a Parameters object
    outline,      \* an Outline: sections in the order they were written
    director,     \* a Director: its project, its stages and its index
    factory,      \* whether Workflow.contents is a defaultdict(set)
    frames,       \* the call in progress: its frames, the innermost last
    prev,         \* the state the last call started from
    last,         \* the last call and how it ended
    ret,          \* what the last call returned
    steps         \* number of calls made

vars == <<contents, subclasses, instances, objects, parameters, outline,
          director, factory, frames, prev, last, ret, steps>>

-----------------------------------------------------------------------------
(* Bounds of the model                                                     *)

\* number of method calls in one behaviour of Spec
MaxOps == 2
\* number of calls in one behaviour of SpecGraph, the constructor included
MaxGraphOps == 2
\* number of calls in one behaviour of SpecBranch
MaxBranchOps == 2

\* node names used by the calls
Nodes == {"a", "b", "c", "s"}
\* the nodes that are chained, added and listed as descendants
ChainNodes == {"a", "b", "c"}
\* the nodes of the adjacency maps a Workflow is constructed from
GraphNodes == {"a", "b", "c"}
\* the nodes of the graphs that are appended and prepended
ItemNodes == {"a", "b"}
\* the nodes of the groups handed to branchify
BranchNodes == {"a", "b", "c", "d"}
\* Python's None, which more_itertools.windowed pads a short window with
PyNone == "None"
AllNodes == Nodes \cup {PyNone}
\* the value None stored where a successor set is expected
NoneVal == {"<NoneType>"}

-----------------------------------------------------------------------------
(* Python values                                                           *)

\* an optional argument: omitted (None) or given
NoArg == [given |-> FALSE, val |-> <<>>]
Arg(s) == [given |-> TRUE, val |-> s]

Range(s) == {s[i] : i \in DOMAIN s}

\* sequences without repetition over S, of length lo..hi
SeqsOf(S, lo, hi) ==
    {q \in UNION {[1..n -> S] : n \in lo..hi} :
        \A i, j \in DOMAIN q : i # j => q[i] # q[j]}

\* every order in which the members of a set can be iterated
Orders(S) == {q \in [1..Cardinality(S) -> S] : Range(q) = S}

\* one fixed iteration order of a set
RECURSIVE SetToSeq(_)
SetToSeq(S) ==
    IF S = {} THEN <<>>
    ELSE LET x == CHOOSE y \in S : TRUE IN <<x>> \o SetToSeq(S \ {x})

EmptyGraph == [n \in {} |-> {}]

\* dict item assignment: d[k] = v
Put(g, k, v) == [x \in DOMAIN g \cup {k} |-> IF x = k THEN v ELSE g[x]]

Ok(g) == [g |-> g, err |-> "ok"]
Raise(g, e) == [g |-> g, err |-> e]

-----------------------------------------------------------------------------
(* Workflow properties                                                     *)

\* Workflow._stringify applied to a node name that is already a string
stringify(n) == n

adjacency(g) == g

\* from_adjacency as it would be if it rebuilt the map from its edges: a node
\* without successors is lost
from_adjacency_by_edges(m) == [k \in {n \in DOMAIN m : m[n] # {}} |-> m[k]]

from_adjacency(m) == m

nodes(g) == DOMAIN g

endpoints(g) == {k \in DOMAIN g : g[k] = {} \/ g[k] = NoneVal}

roots(g) == {k \in DOMAIN g : \A j \in DOMAIN g : k \notin g[j]}

-----------------------------------------------------------------------------
(* Workflow.connect and Workflow.add                                       *)
(* 'x in self' is membership among the keys of contents.                   *)

\* self.contents[node] = set(), the call add(node = node) made by connect
add_node(g, node) == Put(g, node, {})

\* connect as it would be without its test of start == stop
connect_unguarded(g, start, stop) ==
    LET g1 == IF start \notin DOMAIN g THEN add_node(g, start)
              ELSE IF stop \notin DOMAIN g THEN add_node(g, stop)
              ELSE g
    IN  Ok([g1 EXCEPT ![start] = @ \cup {stop}])

connect(g, start, stop) ==
    IF start = stop THEN Raise(g, "ValueError")
    ELSE LET g1 == IF start \notin DOMAIN g THEN add_node(g, start)
                   ELSE IF stop \notin DOMAIN g THEN add_node(g, stop)
                   ELSE g
             g2 == IF stop \notin g1[start]
                   THEN [g1 EXCEPT ![start] = @ \cup {stringify(stop)}]
                   ELSE g1
         IN  Ok(g2)

\* 'for starting in start: if node not in self[starting]: connect(starting, node)'
RECURSIVE add_ancestors(_, _, _, _)
add_ancestors(g, node, start, i) ==
    IF i > Len(start) THEN Ok(g)
    ELSE IF node \in g[start[i]] THEN add_ancestors(g, node, start, i + 1)
    ELSE LET r == connect(g, start[i], node)
         IN  IF r.err # "ok" THEN r
             ELSE add_ancestors(r.g, node, start, i + 1)

\* add as it would be if it stored the node before looking for missing
\* descendants
add_store_first(g, node, ancestors, descendants) ==
    IF descendants.given
       /\ \E i \in DOMAIN descendants.val : descendants.val[i] \notin DOMAIN g
    THEN Raise(Put(g, node, {}), "KeyError")
    ELSE Ok(Put(g, node, Range(descendants.val)))

\* 'ancestors' and 'descendants' are lists of node names (not the name of a
\* property of the Workflow); a KeyError for missing ancestors comes after
\* the node has been stored
add(g, node, ancestors, descendants) ==
    LET d  == [i \in DOMAIN descendants.val |-> stringify(descendants.val[i])]
        r1 == IF ~descendants.given THEN Ok(Put(g, node, {}))
              ELSE IF \E i \in DOMAIN d : d[i] \notin DOMAIN g
                   THEN Raise(g, "KeyError")
                   ELSE Ok(Put(g, node, Range(d)))
    IN  IF r1.err # "ok" \/ ~ancestors.given THEN r1
        ELSE IF \E i \in DOMAIN ancestors.val :
                    ancestors.val[i] \notin DOMAIN r1.g
             THEN Raise(r1.g, "KeyError")
             ELSE add_ancestors(r1.g, node, ancestors.val, 1)


-----------------------------------------------------------------------------
(* Workflow.walk, Workflow._find_all_paths, Workflow.paths                 *)

RECURSIVE walk(_, _, _, _)
RECURSIVE walk_successors(_, _, _, _, _)

\* all paths from 'start' to 'stop' that extend 'path'
walk(g, start, stop, path) ==
    LET p == Append(path, start)
    IN  IF start = stop THEN <<p>>
        ELSE IF start \notin DOMAIN g THEN <<>>
        ELSE walk_successors(g, SetToSeq(g[start]), 1, stop, p)

\* 'for node in self.contents[start]: if node not in path: ...'
walk_successors(g, succ, i, stop, p) ==
    IF i > Len(succ) THEN <<>>
    ELSE (IF succ[i] \notin Range(p) THEN walk(g, succ[i], stop, p) ELSE <<>>)
         \o walk_successors(g, succ, i + 1, stop, p)

RECURSIVE find_from(_, _, _, _)
\* the inner loop of _find_all_paths: one start, every stop
find_from(g, start, stops, j) ==
    IF j > Len(stops) THEN <<>>
    ELSE walk(g, start, stops[j], <<>>) \o find_from(g, start, stops, j + 1)

RECURSIVE find_all_paths(_, _, _, _)
find_all_paths(g, starts, stops, i) ==
    IF i > Len(starts) THEN <<>>
    ELSE find_from(g, starts[i], stops, 1)
         \o find_all_paths(g, starts, stops, i + 1)

\* paths as it would be if it started from every node, not only from roots
paths_from_all(g) ==
    find_all_paths(g, SetToSeq(DOMAIN g), SetToSeq(endpoints(g)), 1)

paths(g) == find_all_paths(g, SetToSeq(roots(g)), SetToSeq(endpoints(g)), 1)

-----------------------------------------------------------------------------
(* Workflow.extend                                                         *)

\* more_itertools.windowed(nodes, 2): a lone node is padded with None
windowed(q) ==
    IF Len(q) = 1 THEN << <<q[1], PyNone>> >>
    ELSE [i \in 1..(Len(q) - 1) |-> <<q[i], q[i + 1]>>]

\* 'for starting in start: self.connect(start = starting, stop = first)'
RECURSIVE connect_each(_, _, _, _)
connect_each(g, start, first, i) ==
    IF i > Len(start) THEN Ok(g)
    ELSE LET r == connect(g, start[i], first)
         IN  IF r.err # "ok" THEN r ELSE connect_each(r.g, start, first, i + 1)

\* 'for edge_pair in edges: self.connect(edge_pair[0], edge_pair[1])'
RECURSIVE connect_pairs(_, _, _)
connect_pairs(g, edges, i) ==
    IF i > Len(edges) THEN Ok(g)
    ELSE LET r == connect(g, edges[i][1], edges[i][2])
         IN  IF r.err # "ok" THEN r ELSE connect_pairs(r.g, edges, i + 1)

\* 'chain' is the flat 'nodes' list; 'start' is the list given, or the
\* endpoints in the order 'order' iterates them
extend(g, chain, start, order) ==
    LET from == IF start.given THEN start.val ELSE order
        r1   == IF from # <<>> THEN connect_each(g, from, chain[1], 1)
                ELSE add(g, chain[1], NoArg, NoArg)
    IN  IF r1.err # "ok" THEN r1 ELSE connect_pairs(r1.g, windowed(chain), 1)

-----------------------------------------------------------------------------
(* Workflow.branchify                                                      *)

\* itertools.product(*groups), in the order product yields
RECURSIVE product(_, _)
product(groups, i) ==
    IF i > Len(groups) THEN << <<>> >>
    ELSE LET rest == product(groups, i + 1)
             RECURSIVE over(_)
             over(k) ==
                 IF k > Len(groups[i]) THEN <<>>
                 ELSE [n \in DOMAIN rest |-> <<groups[i][k]>> \o rest[n]]
                      \o over(k + 1)
         IN  over(1)

\* the body of 'for path in paths'; add_edge and add_node are the edge and
\* node insertions of the graph, connect and add
branch_path(g, path, from) ==
    LET r1 == IF from # <<>> THEN connect_each(g, from, path[1], 1)
              ELSE IF path[1] \notin DOMAIN g THEN add(g, path[1], NoArg, NoArg)
              ELSE Ok(g)
    IN  IF r1.err # "ok" THEN r1 ELSE connect_pairs(r1.g, windowed(path), 1)

RECURSIVE branch_paths(_, _, _, _)
branch_paths(g, ps, from, i) ==
    IF i > Len(ps) THEN Ok(g)
    ELSE LET r == branch_path(g, ps[i], from)
         IN  IF r.err # "ok" THEN r ELSE branch_paths(r.g, ps, from, i + 1)

branchify(g, groups, start, order) ==
    branch_paths(g, product(groups, 1),
                 IF start.given THEN start.val ELSE order, 1)

-----------------------------------------------------------------------------
(* Workflow.delete and Workflow.subset                                     *)

\* 'del self.contents[node]', then every value becomes the result of
\* set.discard, which is None; discard on a value that is None already raises
delete(g, node) ==
    IF node \notin DOMAIN g THEN Raise(g, "KeyError")
    ELSE LET g1 == [k \in DOMAIN g \ {node} |-> g[k]]
         IN  IF \E k \in DOMAIN g1 : g1[k] = NoneVal
             THEN Raise(g1, "AttributeError")
             ELSE Ok([k \in DOMAIN g1 |-> NoneVal])

RECURSIVE delete_each(_, _, _)
delete_each(g, excludables, i) ==
    IF i > Len(excludables) THEN Ok(g)
    ELSE LET r == delete(g, excludables[i])
         IN  IF r.err # "ok" THEN r ELSE delete_each(r.g, excludables, i + 1)

\* the members of the list 'order' that satisfy keep, in that order
RECURSIVE Filter(_, _, _)
Filter(order, keep, i) ==
    IF i > Len(order) THEN <<>>
    ELSE (IF order[i] \in keep THEN <<order[i]>> ELSE <<>>)
         \o Filter(order, keep, i + 1)

\* 'order' is the order in which the dict 'contents' iterates its keys;
\* the result is the new graph, the stored graph is not touched
subset(g, include, exclude, order) ==
    IF ~include.given /\ ~exclude.given THEN Raise(EmptyGraph, "ValueError")
    ELSE LET first == IF include.given /\ include.val # <<>>
                      THEN Filter(order, DOMAIN g \ Range(include.val), 1)
                      ELSE <<>>
         IN  IF ~exclude.given /\ order # <<>>
             THEN Raise(EmptyGraph, "TypeError")
             ELSE delete_each(g, first \o Filter(order, Range(exclude.val), 1), 1)

-----------------------------------------------------------------------------
(* Workflow.merge, Workflow.append and Workflow.prepend                    *)

\* self.contents.update(adjacency)
merge(g, adj) ==
    [k \in DOMAIN g \cup DOMAIN adj |-> IF k \in DOMAIN adj THEN adj[k] ELSE g[k]]

\* update stores the very set objects of the merged graph: what connect adds
\* to such a set of the workflow shows in the merged graph as well
Shared(ng, g) == [k \in DOMAIN ng |-> g[k]]

\* 'for x in xs: self.connect(start = x, stop = stop)' with the graph ng kept
\* in step; swap says that x is the stop and 'stop' the start
RECURSIVE wire_each(_, _, _, _, _, _)
wire_each(g, ng, xs, other, swap, j) ==
    IF j > Len(xs) THEN [g |-> g, ng |-> ng, err |-> "ok"]
    ELSE LET r == IF swap THEN connect(g, other, xs[j])
                  ELSE connect(g, xs[j], other)
         IN  IF r.err # "ok" THEN [g |-> r.g, ng |-> ng, err |-> r.err]
             ELSE wire_each(r.g, Shared(ng, r.g), xs, other, swap, j + 1)

\* 'for endpoint in current_endpoints: for root in new_graph.roots: ...'
RECURSIVE append_each(_, _, _, _)
append_each(g, ng, current, i) ==
    IF i > Len(current) THEN Ok(g)
    ELSE LET r == wire_each(g, ng, SetToSeq(roots(ng)), current[i], TRUE, 1)
         IN  IF r.err # "ok" THEN Raise(r.g, r.err)
             ELSE append_each(r.g, r.ng, current, i + 1)

\* 'current' lists the endpoints of the workflow in the order list() gives;
\* create builds the new graph from the adjacency map 'item'
append(g, item, current) ==
    LET new_graph == from_adjacency(item)
    IN  append_each(merge(g, adjacency(new_graph)), new_graph, current, 1)

\* 'for root in current_roots: for endpoint in new_graph.endpoints: ...'
RECURSIVE prepend_each(_, _, _, _)
prepend_each(g, ng, current, i) ==
    IF i > Len(current) THEN Ok(g)
    ELSE LET r == wire_each(g, ng, SetToSeq(endpoints(ng)), current[i], FALSE, 1)
         IN  IF r.err # "ok" THEN Raise(r.g, r.err)
             ELSE prepend_each(r.g, r.ng, current, i + 1)

\* 'current' lists the roots of the workflow in the order list() gives
prepend(g, item, current) ==
    LET new_graph == from_adjacency(item)
    IN  prepend_each(merge(g, adjacency(new_graph)), new_graph, current, 1)

-----------------------------------------------------------------------------
(* The calls                                                               *)

NoCall ==
    [op |-> "init", x |-> "", y |-> "", nodes |-> <<>>, groups |-> <<>>,
     start |-> NoArg, other |-> NoArg, item |-> EmptyGraph, err |-> "ok"]

Init ==
    /\ contents = EmptyGraph
    /\ subclasses = <<>>
    /\ instances = <<>>
    /\ objects = <<>>
    /\ parameters = <<>>
    /\ outline = <<>>
    /\ prev = EmptyGraph
    /\ last = NoCall
    /\ ret = EmptyGraph
    /\ director = <<>>
    /\ factory = TRUE
    /\ frames = <<>>
    /\ steps = 0

\* the bookkeeping every call shares; 'default' tells whether the call leaves
\* a defaultdict(set) in 'contents'
CalledAs(call, r, default) ==
    /\ steps' = steps + 1
    /\ prev' = contents
    /\ contents' = r.g
    /\ factory' = default
    /\ last' = [call EXCEPT !.err = r.err]
    /\ UNCHANGED <<subclasses, instances, objects, parameters, outline,
                   director, frames>>

\* a call that mutates the dict in 'contents' without replacing it
Called(call, r) == CalledAs(call, r, factory)

\* 'ancestors' and 'start' arguments: omitted, or a list of one node
Starts == {NoArg} \cup {Arg(<<n>>) : n \in Nodes}
\* 'descendants' arguments: omitted, or a list of one or two nodes
Descendants == {NoArg} \cup {Arg(q) : q \in SeqsOf(ChainNodes, 1, 2)}
\* 'nodes' arguments of extend
Chains == SeqsOf(ChainNodes, 1, 3)
\* adjacency maps over S without self-loop: every node of the map has
\* successors in S, which need not be nodes of the map
Adjacencies(S) ==
    {m \in UNION {[K -> SUBSET S] : K \in SUBSET S} :
        \A k \in DOMAIN m : k \notin m[k]}
\* 'exclude' arguments: omitted, or a list of nodes (only membership in the
\* list is read, so one list per set of nodes)
Excludes == {NoArg} \cup {Arg(SetToSeq(S)) : S \in SUBSET GraphNodes}
\* 'include' arguments: omitted, or a list of nodes; the graphs and the
\* 'exclude' lists range over every naming of the nodes, so one list per
\* length is every case
Includes == {NoArg, Arg(<<>>), Arg(<<"a">>), Arg(<<"a", "b">>),
             Arg(<<"a", "b", "c">>)}
\* 'nodes' arguments of branchify: one or two groups, no node twice
Groups ==
    {gs \in SeqsOf(SeqsOf(BranchNodes, 1, 2), 1, 2) :
        \A i, j \in DOMAIN gs : i # j => Range(gs[i]) \cap Range(gs[j]) = {}}

AddTo(budget, N) ==
    /\ steps < budget
    /\ \E node \in N, ancestors \in Starts, descendants \in Descendants :
        /\ Called([NoCall EXCEPT !.op = "add", !.x = node,
                                 !.start = ancestors, !.other = descendants],
                  add(contents, node, ancestors, descendants))
        /\ UNCHANGED ret

Add == AddTo(MaxOps, ChainNodes)

Connect ==
    /\ steps < MaxOps
    /\ \E start \in Nodes, stop \in Nodes :
        /\ Called([NoCall EXCEPT !.op = "connect", !.x = start, !.y = stop],
                  connect(contents, start, stop))
        /\ UNCHANGED ret

Extend ==
    /\ steps < MaxOps
    /\ \E chain \in Chains, start \in Starts, order \in Orders(endpoints(contents)) :
        /\ Called([NoCall EXCEPT !.op = "extend", !.nodes = chain,
                                 !.start = start],
                  extend(contents, chain, start, order))
        /\ UNCHANGED ret

Next == Add \/ Connect \/ Extend

Spec == Init /\ [][Next]_vars

\* Workflow.from_adjacency constructs the workflow: it is the first call
\* 'cls(contents = adjacency)': the dict handed in replaces the defaultdict
FromAdjacencyWithin(budget) ==
    /\ steps = 0 /\ steps < budget
    /\ \E m \in Adjacencies(GraphNodes) :
        /\ CalledAs([NoCall EXCEPT !.op = "from_adjacency", !.item = m],
                    Ok(from_adjacency(m)), FALSE)
        /\ UNCHANGED ret

FromAdjacency == FromAdjacencyWithin(MaxGraphOps)

Subset ==
    /\ steps > 0 /\ steps < MaxGraphOps
    /\ \E include \in Includes, exclude \in Excludes, order \in Orders(DOMAIN contents) :
        LET r == subset(contents, include, exclude, order)
        IN  /\ Called([NoCall EXCEPT !.op = "subset", !.start = include,
                                     !.other = exclude],
                      [g |-> contents, err |-> r.err])
            /\ ret' = IF r.err = "ok" THEN r.g ELSE EmptyGraph

AppendItem ==
    /\ steps > 0 /\ steps < MaxGraphOps
    /\ \E item \in Adjacencies(ItemNodes), current \in Orders(endpoints(contents)) :
        /\ Called([NoCall EXCEPT !.op = "append", !.item = item],
                  append(contents, item, current))
        /\ UNCHANGED ret

PrependItem ==
    /\ steps > 0 /\ steps < MaxGraphOps
    /\ \E item \in Adjacencies(ItemNodes), current \in Orders(roots(contents)) :
        /\ Called([NoCall EXCEPT !.op = "prepend", !.item = item],
                  prepend(contents, item, current))
        /\ UNCHANGED ret

NextGraph == FromAdjacency \/ Subset \/ AppendItem \/ PrependItem

SpecGraph == Init /\ [][NextGraph]_vars

AddStart == AddTo(MaxBranchOps, {"s"})

Branchify ==
    /\ steps < MaxBranchOps
    /\ \E groups \in Groups, start \in {NoArg, Arg(<<"s">>)},
       order \in Orders(endpoints(contents)) :
        /\ Called([NoCall EXCEPT !.op = "branchify", !.groups = groups,
                                 !.start = start],
                  branchify(contents, groups, start, order))
        /\ UNCHANGED ret

NextBranch == AddStart \/ Branchify

SpecBranch == Init /\ [][NextBranch]_vars

-----------------------------------------------------------------------------
(* The Library of components (src/fiat/nodes.py)                           *)

\* number of calls in one behaviour of SpecLibrary
MaxLibraryOps == 3

\* the concrete Component subclasses of the model
Classes == {"Analyst", "MinMax", "Min_max", "Porter"}
\* the base class (configuration.bases) each of them derives from
BaseOf == [c \in Classes |->
             CASE c = "Analyst" -> "laborer"
               [] c = "MinMax"  -> "task"
               [] c = "Min_max" -> "manager"
               [] c = "Porter"  -> "worker"]
\* tools.snakify on the class names: CamelCase to snake_case, lower case
snakify == [c \in Classes |->
             CASE c = "Analyst" -> "analyst"
               [] c = "MinMax"  -> "min_max"
               [] c = "Min_max" -> "min_max"
               [] c = "Porter"  -> "porter"]
\* values that are neither a Component nor a subclass of Component
NonComponents == {"junk"}
\* names given to the components that are constructed; None is the default
ComponentNames == {"x", "analyst", PyNone}
\* names that are looked up
LookupNames == {"x", "analyst", "min_max", "porter"}
\* attributes a caller sets, with the value it sets
Overrides == {<<>>, [iterations |-> 2]}

\* a Python value handed round by the Library: a class, an object (by
\* identity), something else, or None
Type(c) == [kind |-> "type", cls |-> c]
Object(id) == [kind |-> "object", id |-> id]
Other(v) == [kind |-> "other", val |-> v]
NoItem == [kind |-> "None"]

\* the Library with the objects its catalogs refer to
TheLibrary ==
    [subclasses |-> subclasses, instances |-> instances, objects |-> objects]

\* setattr(instance, key, value) for every item of kwargs
setattrs(o, kwargs) ==
    [cls |-> o.cls, name |-> o.name,
     contents |-> IF "contents" \in DOMAIN kwargs THEN kwargs.contents
                  ELSE o.contents,
     iterations |-> IF "iterations" \in DOMAIN kwargs THEN kwargs.iterations
                    ELSE o.iterations]

\* the fields the Component dataclass sets: cls(name = name, **kwargs)
Component(cls, name, kwargs) ==
    setattrs([cls |-> cls, name |-> name, contents |-> PyNone,
              iterations |-> 1], kwargs)

\* isinstance(component, Component)
IsComponent(component) == component.kind = "object"
\* inspect.isclass(component) and issubclass(component, Component)
IsComponentClass(component) == component.kind = "type"

\* Library._get_instances_key: the name of the component
get_instances_key(lib, component) == lib.objects[component.id].name

\* Library._get_subclasses_key: the snake case name of the class, or of the
\* class of an instance
get_subclasses_key(lib, component) ==
    IF component.kind = "type" THEN snakify[component.cls]
    ELSE snakify[lib.objects[component.id].cls]

\* a register that stores the class of an instance over a registered one
register_overwrite(lib, component) ==
    IF IsComponent(component) THEN
        LET instances_key == get_instances_key(lib, component)
            subclasses_key == get_subclasses_key(lib, component)
        IN  [lib |-> [lib EXCEPT
                        !.instances = Put(@, instances_key, component.id),
                        !.subclasses = Put(@, subclasses_key,
                                           lib.objects[component.id].cls)],
             err |-> "ok"]
    ELSE IF IsComponentClass(component) THEN
        [lib |-> [lib EXCEPT !.subclasses =
                    Put(@, get_subclasses_key(lib, component), component.cls)],
         err |-> "ok"]
    ELSE [lib |-> lib, err |-> "TypeError"]

\* Library.register
register(lib, component) ==
    IF IsComponent(component) THEN
        LET instances_key == get_instances_key(lib, component)
            subclasses_key == get_subclasses_key(lib, component)
            stored == [lib EXCEPT
                         !.instances = Put(@, instances_key, component.id)]
        IN  [lib |-> IF subclasses_key \notin DOMAIN stored.subclasses
                     THEN [stored EXCEPT !.subclasses =
                             Put(@, subclasses_key,
                                 lib.objects[component.id].cls)]
                     ELSE stored,
             err |-> "ok"]
    ELSE IF IsComponentClass(component) THEN
        [lib |-> [lib EXCEPT !.subclasses =
                    Put(@, get_subclasses_key(lib, component), component.cls)],
         err |-> "ok"]
    ELSE [lib |-> lib, err |-> "TypeError"]

\* cls(name = name, **kwargs): the dataclass sets the fields, then
\* Component.__post_init__ registers the new object
construct(lib, cls, name, kwargs) ==
    LET id == Len(lib.objects) + 1
        made == [lib EXCEPT !.objects = Append(@, Component(cls, name, kwargs))]
    IN  [lib |-> register(made, Object(id)).lib, id |-> id]

\* getattr(self, catalog)[key], None standing for the KeyError
getitem(lib, catalog, key) ==
    IF catalog = "instances" THEN
        IF key \in DOMAIN lib.instances THEN Object(lib.instances[key])
        ELSE NoItem
    ELSE
        IF key \in DOMAIN lib.subclasses THEN Type(lib.subclasses[key])
        ELSE NoItem

\* the loops of instance and select: the first name found in a catalog, the
\* catalogs being tried in the order given for every name
RECURSIVE first_match(_, _, _, _)
first_match(lib, names, catalogs, i) ==
    IF i > Len(names) THEN NoItem
    ELSE LET one == getitem(lib, catalogs[1], names[i])
             two == getitem(lib, catalogs[2], names[i])
         IN  IF one.kind # "None" THEN one
             ELSE IF two.kind # "None" THEN two
             ELSE first_match(lib, names, catalogs, i + 1)

\* an instance that tries the catalogs in the order of select
instance_subclasses_first(lib, names, kwargs) ==
    LET primary == names[1]
        item == first_match(lib, names, <<"subclasses", "instances">>, 1)
    IN  IF item.kind = "None" THEN
            [lib |-> lib, err |-> "KeyError", ret |-> NoItem]
        ELSE IF item.kind = "type" THEN
            LET made == construct(lib, item.cls, primary, kwargs)
            IN  [lib |-> made.lib, err |-> "ok", ret |-> Object(made.id)]
        ELSE
            LET copy == setattrs(lib.objects[item.id], kwargs)
            IN  [lib |-> [lib EXCEPT !.objects = Append(@, copy)],
                 err |-> "ok", ret |-> Object(Len(lib.objects) + 1)]

\* Library.instance
instance(lib, names, kwargs) ==
    LET primary == names[1]
        item == first_match(lib, names, <<"instances", "subclasses">>, 1)
    IN  IF item.kind = "None" THEN
            [lib |-> lib, err |-> "KeyError", ret |-> NoItem]
        ELSE IF item.kind = "type" THEN
            LET made == construct(lib, item.cls, primary, kwargs)
            IN  [lib |-> made.lib, err |-> "ok", ret |-> Object(made.id)]
        ELSE
            LET copy == setattrs(lib.objects[item.id], kwargs)
            IN  [lib |-> [lib EXCEPT !.objects = Append(@, copy)],
                 err |-> "ok", ret |-> Object(Len(lib.objects) + 1)]

\* a select that tries the catalogs in the order of instance
select_instances_first(lib, names) ==
    LET item == first_match(lib, names, <<"instances", "subclasses">>, 1)
    IN  IF item.kind = "None" THEN
            [lib |-> lib, err |-> "KeyError", ret |-> NoItem]
        ELSE IF item.kind = "type" THEN
            [lib |-> lib, err |-> "ok", ret |-> item]
        ELSE [lib |-> lib, err |-> "ok",
              ret |-> Type(lib.objects[item.id].cls)]

\* Library.select
select(lib, names) ==
    LET item == first_match(lib, names, <<"subclasses", "instances">>, 1)
    IN  IF item.kind = "None" THEN
            [lib |-> lib, err |-> "KeyError", ret |-> NoItem]
        ELSE IF item.kind = "type" THEN
            [lib |-> lib, err |-> "ok", ret |-> item]
        ELSE [lib |-> lib, err |-> "ok",
              ret |-> Type(lib.objects[item.id].cls)]

\* the keys of the entries of both catalogs that derive from a base class
OfKind(lib, kind) ==
    {k \in DOMAIN lib.instances :
        BaseOf[lib.objects[lib.instances[k]].cls] = kind}
    \cup {k \in DOMAIN lib.subclasses : BaseOf[lib.subclasses[k]] = kind}

\* Library.laborers
laborers(lib) == OfKind(lib, "laborer")
\* Library.manager
manager(lib) == OfKind(lib, "manager")
\* Library.tasks
tasks(lib) == OfKind(lib, "task")
\* Library.workers
workers(lib) == OfKind(lib, "worker")

\* the properties the Library class defines
LibraryProperties == {"laborers", "manager", "tasks", "workers"}

\* Library.classify: the second test reads self.managers, and reading an
\* attribute the class does not define ends in an AttributeError
classify(lib, component) ==
    IF component \in laborers(lib) THEN
        [lib |-> lib, err |-> "ok", ret |-> Other("laborer")]
    ELSE IF "managers" \notin LibraryProperties THEN
        [lib |-> lib, err |-> "AttributeError", ret |-> NoItem]
    ELSE IF component \in manager(lib) THEN
        [lib |-> lib, err |-> "ok", ret |-> Other("manager")]
    ELSE IF component \in tasks(lib) THEN
        [lib |-> lib, err |-> "ok", ret |-> Other("task")]
    ELSE IF component \in workers(lib) THEN
        [lib |-> lib, err |-> "ok", ret |-> Other("worker")]
    ELSE [lib |-> lib, err |-> "TypeError", ret |-> NoItem]

\* the calls on the Library
NoLibraryCall ==
    [op |-> "init", names |-> <<>>, kwargs |-> <<>>, component |-> NoItem,
     err |-> "ok"]

\* 'name' arguments of instance and select: a name or a list of names
NameLists == {<<"x">>, <<"analyst">>, <<"x", "analyst">>, <<"min_max", "x">>}

\* the bookkeeping every call on the Library shares
LibraryCalled(call, r, value) ==
    /\ steps' = steps + 1
    /\ prev' = [subclasses |-> subclasses, instances |-> instances,
                objects |-> objects, last |-> last, ret |-> ret]
    /\ subclasses' = r.lib.subclasses
    /\ instances' = r.lib.instances
    /\ objects' = r.lib.objects
    /\ last' = [call EXCEPT !.err = r.err]
    /\ ret' = value
    /\ UNCHANGED <<contents, parameters, outline, director, factory, frames>>

\* a caller constructs a component: cls(name = name)
Construct ==
    /\ steps < MaxLibraryOps
    /\ \E cls \in Classes, name \in ComponentNames :
        LET made == construct(TheLibrary, cls, name, <<>>)
        IN  LibraryCalled([NoLibraryCall EXCEPT !.op = "construct",
                             !.names = <<name>>, !.component = Type(cls)],
                          [lib |-> made.lib, err |-> "ok"], Object(made.id))

Register ==
    /\ steps < MaxLibraryOps
    /\ \E component \in {Type(c) : c \in Classes}
                        \cup {Object(i) : i \in DOMAIN objects}
                        \cup {Other(v) : v \in NonComponents} :
        LibraryCalled([NoLibraryCall EXCEPT !.op = "register",
                         !.component = component],
                      register(TheLibrary, component), NoItem)

Instance ==
    /\ steps < MaxLibraryOps
    /\ \E names \in NameLists, kwargs \in Overrides :
        LET r == instance(TheLibrary, names, kwargs)
        IN  LibraryCalled([NoLibraryCall EXCEPT !.op = "instance",
                             !.names = names, !.kwargs = kwargs], r, r.ret)

Select ==
    /\ steps < MaxLibraryOps
    /\ \E names \in NameLists :
        LET r == select(TheLibrary, names)
        IN  LibraryCalled([NoLibraryCall EXCEPT !.op = "select",
                             !.names = names], r, r.ret)

Classify ==
    /\ steps < MaxLibraryOps
    /\ \E name \in LookupNames :
        LET r == classify(TheLibrary, name)
        IN  LibraryCalled([NoLibraryCall EXCEPT !.op = "classify",
                             !.names = <<name>>], r, r.ret)

\* the caller sets an attribute of the object instance has just returned
SetAttr ==
    /\ steps < MaxLibraryOps
    /\ last.op = "instance" /\ last.err = "ok"
    /\ LibraryCalled([NoLibraryCall EXCEPT !.op = "setattr",
                        !.component = ret, !.kwargs = [iterations |-> 3]],
                     [lib |-> [TheLibrary EXCEPT !.objects[ret.id] =
                                 setattrs(@, [iterations |-> 3])],
                      err |-> "ok"], NoItem)

NextLibrary ==
    Construct \/ Register \/ Instance \/ Select \/ Classify \/ SetAttr

SpecLibrary == Init /\ [][NextLibrary]_vars

-----------------------------------------------------------------------------
(* The Parameters of a component (src/fiat/base.py)                        *)

\* number of finalize calls in one behaviour of SpecParameters
MaxFinalizeOps == 2

\* names of parameters
ParameterKeys == {"a", "b"}

\* a dict that gives every key of K the value v; the values of the model
\* name the source they come from
Layer(K, v) == [k \in K |-> v]

\* dict.update: d.update(e)
Update(d, e) ==
    [k \in DOMAIN d \cup DOMAIN e |-> IF k \in DOMAIN e THEN e[k] ELSE d[k]]

\* strings are the lists of their words between underscores
\* f'{item}_parameters'; the empty string is the one empty word
section_key(words) ==
    (IF words = <<>> THEN <<"">> ELSE words) \o <<"parameters">>

\* the 'name' of a Parameters: None (the default), or a string
ParameterNames == {<<PyNone>>, <<"scaler">>, <<"pca", "scaler">>}

\* the settings of a project: section name -> dict
SettingsOptions ==
    { <<>>,
      (section_key(<<"pca", "scaler">>) :> Layer({"a"}, "settings")),
      (section_key(<<"pca">>) :> Layer({"a"}, "prefix settings"))
        @@ (section_key(<<"scaler">>) :> Layer({"a", "b"}, "suffix settings")),
      (section_key(<<"scaler">>) :> Layer({"b"}, "suffix settings")) }

\* the projects handed to finalize: with settings, or without the attribute
\* 'settings'; all have an attribute 'data' and an item 'item' in contents
Projects ==
    {[has_settings |-> TRUE, settings |-> s,
      attributes |-> [data |-> "attribute"], contents |-> [item |-> "item"]]
        : s \in SettingsOptions}
    \cup {[has_settings |-> FALSE, settings |-> <<>>,
           attributes |-> [data |-> "attribute"],
           contents |-> [item |-> "item"]]}

\* Parameters._from_settings; a None name has no split method, which ends
\* the lookup of the fallback sections in an AttributeError
from_settings(self, settings) ==
    IF section_key(self.name) \in DOMAIN settings THEN
        [err |-> "ok", val |-> settings[section_key(self.name)]]
    ELSE IF self.name = <<PyNone>> THEN
        [err |-> "AttributeError", val |-> <<>>]
    ELSE
        LET suffix == <<self.name[Len(self.name)]>>
            prefix == SubSeq(self.name, 1, Len(self.name) - 1)
        IN  IF section_key(prefix) \in DOMAIN settings THEN
                [err |-> "ok", val |-> settings[section_key(prefix)]]
            ELSE IF section_key(suffix) \in DOMAIN settings THEN
                [err |-> "ok", val |-> settings[section_key(suffix)]]
            ELSE [err |-> "ok", val |-> <<>>]

\* the value an entry of 'implementation' resolves to: the attribute of the
\* project, else the item of its contents, else nothing
Resolves(project, attribute) ==
    attribute \in DOMAIN project.attributes \cup DOMAIN project.contents
Resolved(project, attribute) ==
    IF attribute \in DOMAIN project.attributes
    THEN project.attributes[attribute]
    ELSE project.contents[attribute]

\* Parameters._at_runtime: the items it writes into self.contents
at_runtime(self, project) ==
    [parameter \in {p \in DOMAIN self.implementation :
                        Resolves(project, self.implementation[p])}
        |-> Resolved(project, self.implementation[parameter])]

\* Parameters.finalize.  'merged' is the local 'parameters': it is the dict
\* self.default itself, and what self.contents is at the end: from then on 'shared' says that
\* contents and default are one dict.
finalize(self, project, kwargs) ==
    LET with_kwargs == Update(self.default, kwargs)
        found == from_settings(self, project.settings)
        with_settings ==
            IF project.has_settings /\ found.err = "ok"
            THEN Update(with_kwargs, found.val) ELSE with_kwargs
        own == IF self.shared THEN with_settings ELSE self.contents
        written == IF self.implementation # <<>>
                   THEN Update(own, at_runtime(self, project)) ELSE own
        merged == Update(IF self.shared THEN written ELSE with_settings,
                             written)
    IN  IF self.selected # <<>>
           /\ \E k \in Range(self.selected) : k \notin DOMAIN written
        THEN [self |-> [self EXCEPT !.default = merged,
                                    !.contents = IF self.shared THEN merged
                                                 ELSE written],
              err |-> "KeyError"]
        ELSE [self |-> [self EXCEPT !.default = merged,
                                    !.contents = merged,
                                    !.shared = TRUE],
              err |-> "ok"]

\* the calls on a Parameters
NoParametersCall ==
    [op |-> "init", project |-> <<>>, kwargs |-> <<>>, err |-> "ok"]

\* the Parameters objects a behaviour starts from
InitialParameters ==
    [contents : {<<>>, Layer({"a"}, "contents"), Layer({"b"}, "contents")},
     name : ParameterNames,
     default : {<<>>, Layer({"a"}, "default"), Layer({"a", "b"}, "default")},
     implementation : {<<>>, [a |-> "data"], [a |-> "item"],
                       [b |-> "missing"], [a |-> "data", b |-> "item"]},
     selected : {<<>>, <<"a">>, <<"a", "b">>},
     shared : {FALSE}]

\* the keyword arguments of finalize
Kwargs == {<<>>, Layer({"a"}, "kwargs"), Layer({"a", "b"}, "kwargs")}

InitParameters ==
    /\ parameters \in InitialParameters
    /\ contents = EmptyGraph
    /\ subclasses = <<>>
    /\ instances = <<>>
    /\ objects = <<>>
    /\ outline = <<>>
    /\ prev = <<>>
    /\ last = NoParametersCall
    /\ ret = <<>>
    /\ director = <<>>
    /\ factory = TRUE
    /\ frames = <<>>
    /\ steps = 0

Finalize ==
    /\ steps < MaxFinalizeOps
    /\ \E project \in Projects, kwargs \in Kwargs :
        LET r == finalize(parameters, project, kwargs)
        IN  /\ parameters' = r.self
            /\ last' = [op |-> "finalize", project |-> project,
                        kwargs |-> kwargs, err |-> r.err]
            /\ prev' = [parameters |-> parameters, last |-> last]
            /\ steps' = steps + 1
            /\ UNCHANGED <<contents, subclasses, instances, objects, outline,
                           director, factory, frames, ret>>

NextParameters == Finalize

SpecParameters == InitParameters /\ [][NextParameters]_vars

-----------------------------------------------------------------------------
(* The connections of an Outline (src/fiat/workshop.py)                    *)

\* number of sections of an outline
MaxSections == 2
\* number of keys of an outline, over all its sections
MaxKeys == 3

\* section names and keys are strings, modelled as tuples of characters
SectionNames == {<<"a">>, <<"b">>, <<"c">>}
\* the keys of a section: "ts", "t_t", "a_ts" and "a_x"
OutlineKeys ==
    {<<"t", "s">>, <<"t", "_", "t">>, <<"a", "_", "t", "s">>,
     <<"a", "_", "x">>}
\* the keys of the Registry of subclasses: one design, "t"
RegistryKeys == << <<"t">> >>
\* the value under a key: a string or a list of strings
Values == {[str |-> "p"], [list |-> <<"q", "r">>]}

\* Registry.suffixes: the keys, then the keys with an 's' added
suffixes(keys) ==
    keys \o [i \in DOMAIN keys |-> keys[i] \o <<"s">>]

\* str.endswith(suffix)
ends_with(k, suffix) ==
    /\ Len(suffix) <= Len(k)
    /\ SubSeq(k, Len(k) - Len(suffix) + 1, Len(k)) = suffix

\* str.endswith(suffixes) for a tuple of suffixes
endswith(k, sfx) == \E i \in DOMAIN sfx : ends_with(k, sfx[i])

\* tools.divide_string: the parts before and after the last underscore, or
\* the whole string twice when it has no underscore
divide_string(item) ==
    LET dividers == {i \in DOMAIN item : item[i] = "_"}
    IN  IF dividers # {} THEN
            LET at == CHOOSE i \in dividers : \A j \in dividers : j <= i
            IN  [prefix |-> SubSeq(item, 1, at - 1),
                 suffix |-> SubSeq(item, at + 1, Len(item))]
        ELSE [prefix |-> item, suffix |-> item]

\* tools.listify: a list as it is, a string as the list of that string
listify(value) ==
    IF "list" \in DOMAIN value THEN value.list ELSE <<value.str>>

\* [k for k in section.keys() if k.endswith(suffixes)], as items
RECURSIVE component_keys(_, _, _)
component_keys(section, sfx, i) ==
    IF i > Len(section) THEN <<>>
    ELSE (IF endswith(section[i].key, sfx) THEN <<section[i]>> ELSE <<>>)
         \o component_keys(section, sfx, i + 1)

\* the body of the inner loop of outline_to_connections, written so that a
\* key replaces the children its owner has
connect_key_overwrite(connections, name, item) ==
    LET divided == divide_string(item.key)
        values == listify(item.value)
    IN  IF divided.prefix = divided.suffix
        THEN Put(connections, name, values)
        ELSE Put(connections, divided.prefix, values)

\* the body of the inner loop of outline_to_connections, without the test
\* of prefix against suffix
connect_key_to_prefix(connections, name, item) ==
    LET divided == divide_string(item.key)
        values == listify(item.value)
    IN  IF divided.prefix \in DOMAIN connections
        THEN Put(connections, divided.prefix,
                 connections[divided.prefix] \o values)
        ELSE Put(connections, divided.prefix, values)

\* the body of the inner loop of outline_to_connections
connect_key(connections, name, item) ==
    LET divided == divide_string(item.key)
        values == listify(item.value)
    IN  IF divided.prefix = divided.suffix THEN
            IF name \in DOMAIN connections
            THEN Put(connections, name, connections[name] \o values)
            ELSE Put(connections, name, values)
        ELSE
            IF divided.prefix \in DOMAIN connections
            THEN Put(connections, divided.prefix,
                     connections[divided.prefix] \o values)
            ELSE Put(connections, divided.prefix, values)

\* the inner loop: for key in component_keys
RECURSIVE connect_keys(_, _, _, _)
connect_keys(connections, name, keys, i) ==
    IF i > Len(keys) THEN connections
    ELSE connect_keys(connect_key(connections, name, keys[i]), name, keys,
                      i + 1)

\* the outer loop: for name, section in outline.items()
RECURSIVE connect_sections(_, _, _, _)
connect_sections(connections, sections, sfx, i) ==
    IF i > Len(sections) THEN connections
    ELSE connect_sections(
            connect_keys(connections, sections[i].name,
                         component_keys(sections[i].section, sfx, 1), 1),
            sections, sfx, i + 1)

\* workshop.outline_to_connections
outline_to_connections(sections, sfx) ==
    connect_sections(<<>>, sections, sfx, 1)

\* the sum of the first n sizes
RECURSIVE SumTo(_, _)
SumTo(sizes, n) == IF n = 0 THEN 0 ELSE sizes[n] + SumTo(sizes, n - 1)

\* the outline of the given section names, in that order: the i-th section
\* has the next sizes[i] of the items
Outline(names, sizes, items) ==
    [i \in DOMAIN names |->
        [name |-> names[i],
         section |-> SubSeq(items, SumTo(sizes, i - 1) + 1, SumTo(sizes, i))]]

\* a section is a dict: no key twice
IsDict(section) ==
    \A i, j \in DOMAIN section : i # j => section[i].key # section[j].key

\* an outline has up to MaxSections sections, no name twice, and up to
\* MaxKeys keys
InitOutline ==
    /\ \E names \in SeqsOf(SectionNames, 1, MaxSections) :
        \E sizes \in [DOMAIN names -> 0..MaxKeys] :
            /\ SumTo(sizes, Len(names)) <= MaxKeys
            /\ \E items \in [1..SumTo(sizes, Len(names))
                                -> [key : OutlineKeys, value : Values]] :
                /\ \A i \in DOMAIN names :
                      IsDict(Outline(names, sizes, items)[i].section)
                /\ outline = Outline(names, sizes, items)
    /\ contents = EmptyGraph
    /\ subclasses = <<>>
    /\ instances = <<>>
    /\ objects = <<>>
    /\ parameters = <<>>
    /\ prev = <<>>
    /\ last = [op |-> "init"]
    /\ ret = <<>>
    /\ director = <<>>
    /\ factory = TRUE
    /\ frames = <<>>
    /\ steps = 0

OutlineToConnections ==
    /\ steps = 0
    /\ ret' = outline_to_connections(outline, suffixes(RegistryKeys))
    /\ last' = [op |-> "outline_to_connections"]
    /\ steps' = 1
    /\ UNCHANGED <<contents, subclasses, instances, objects, parameters,
                   outline, director, factory, frames, prev>>

NextOutline == OutlineToConnections

SpecOutline == InitOutline /\ [][NextOutline]_vars

-----------------------------------------------------------------------------
(* The designs of the nodes of an Outline (src/fiat/workshop.py)           *)

\* number of sections of an outline that declares designs
MaxDesignSections == 2
\* number of keys of such an outline, over all its sections
MaxDesignKeys == 2

DesignSections == {<<"a">>, <<"p">>}
\* the key 'design'
DesignKey == <<"d", "e", "s", "i", "g", "n">>
\* f'{name}_design'
name_design(name) == name \o <<"_">> \o DesignKey
\* the keys of a section: "ts", "a_ts", "design" and "p_design"
DesignKeys ==
    {<<"t", "s">>, <<"a", "_", "t", "s">>, DesignKey, name_design(<<"p">>)}
\* the value under a key: a string or a list of strings
DesignValues == {[str |-> <<"p">>], [list |-> << <<"q">>, <<"p">> >>]}
\* the design None
NoDesign == [none |-> TRUE]

\* the names that workshop.py defines at module level
WorkshopFunctions ==
    {"create_workflow", "outline_to_workflow", "outline_to_connections",
     "outline_to_sections", "outline_to_bases", "outline_to_design",
     "outline_to_graph", "outline_to_component", "outline_to_initialization",
     "outline_to_implementation", "finalize_serial", "_serial_order",
     "workflow_to_summary", "workflow_to_result"}

\* outline[name][key]: the value, or not found where Python raises KeyError
Lookup(o, name, key) ==
    IF \E i \in DOMAIN o :
          /\ o[i].name = name
          /\ \E j \in DOMAIN o[i].section : o[i].section[j].key = key
    THEN LET section == o[CHOOSE i \in DOMAIN o : o[i].name = name].section
         IN  [found |-> TRUE,
              value |-> section[CHOOSE j \in DOMAIN section :
                                   section[j].key = key].value]
    ELSE [found |-> FALSE, value |-> NoDesign]

\* workshop.outline_to_design
outline_to_design(name, section, o) ==
    LET own == Lookup(o, name, name_design(name))
        plain == Lookup(o, name, DesignKey)
        owning == Lookup(o, section, name_design(name))
    IN  IF own.found THEN own.value
        ELSE IF plain.found THEN plain.value
        ELSE IF owning.found THEN owning.value
        ELSE NoDesign

\* d.update(dict.fromkeys(values, v))
RECURSIVE fromkeys_update(_, _, _, _)
fromkeys_update(dct, values, v, i) ==
    IF i > Len(values) THEN dct
    ELSE fromkeys_update(Put(dct, values[i], v), values, v, i + 1)

\* the inner loop of outline_to_sections: for key in component_keys
RECURSIVE sections_keys(_, _, _, _)
sections_keys(dct, name, keys, i) ==
    IF i > Len(keys) THEN dct
    ELSE sections_keys(fromkeys_update(dct, listify(keys[i].value), name, 1),
                       name, keys, i + 1)

\* the outer loop of outline_to_sections: for name, section in outline.items()
RECURSIVE sections_loop(_, _, _, _)
sections_loop(dct, o, sfx, i) ==
    IF i > Len(o) THEN dct
    ELSE LET keys == component_keys(o[i].section, sfx, 1)
         IN  sections_loop(
                IF keys # <<>>
                THEN sections_keys(Put(dct, o[i].name, o[i].name),
                                   o[i].name, keys, 1)
                ELSE dct,
                o, sfx, i + 1)

\* workshop.outline_to_sections
outline_to_sections(o, sfx) == sections_loop(<<>>, o, sfx, 1)

\* tools.deduplicate: the first occurrence of every item, in order
RECURSIVE deduplicate(_)
deduplicate(iterable) ==
    IF iterable = <<>> THEN <<>>
    ELSE LET front == deduplicate(SubSeq(iterable, 1, Len(iterable) - 1))
             x == iterable[Len(iterable)]
         IN  IF x \in Range(front) THEN front ELSE Append(front, x)

\* the keys that the component keys of one section are stored under by
\* outline_to_connections, in the order of the keys
RECURSIVE key_owners(_, _, _)
key_owners(name, keys, i) ==
    IF i > Len(keys) THEN <<>>
    ELSE LET divided == divide_string(keys[i].key)
         IN  <<IF divided.prefix = divided.suffix THEN name
                ELSE divided.prefix>>
             \o key_owners(name, keys, i + 1)

\* list(connections.keys()): the keys in the order of their insertion
RECURSIVE connections_keys(_, _, _)
connections_keys(o, sfx, i) ==
    IF i > Len(o) THEN <<>>
    ELSE deduplicate(
            key_owners(o[i].name, component_keys(o[i].section, sfx, 1), 1)
            \o connections_keys(o, sfx, i + 1))

\* itertools.chain.from_iterable(connections.values())
RECURSIVE chain(_, _, _)
chain(connections, keys, i) ==
    IF i > Len(keys) THEN <<>>
    ELSE connections[keys[i]] \o chain(connections, keys, i + 1)

\* the nodes of outline_to_workflow: the keys of the connections, then
\* their values, without duplicates
outline_nodes(o, sfx) ==
    LET connections == outline_to_connections(o, sfx)
        keys == connections_keys(o, sfx, 1)
    IN  deduplicate(keys \o chain(connections, keys, 1))

\* the loop of outline_to_bases: for name in nodes.  The body calls
\* outline_to_base, a name that workshop.py does not define, so the
\* statements after the call are never reached.
RECURSIVE bases_loop(_, _, _, _, _, _)
bases_loop(bases, o, sfx, names, smap, i) ==
    IF i > Len(names) THEN [bases |-> bases, err |-> "ok"]
    ELSE IF names[i] \notin DOMAIN smap
    THEN [bases |-> bases, err |-> "KeyError"]
    ELSE LET section == smap[names[i]]
             keys == component_keys(
                        o[CHOOSE k \in DOMAIN o : o[k].name = section].section,
                        sfx, 1)
         IN  IF keys = <<>>
             THEN bases_loop(bases, o, sfx, names, smap, i + 1)
             ELSE IF "outline_to_base" \notin WorkshopFunctions
             THEN [bases |-> bases, err |-> "NameError"]
             ELSE [bases |-> bases, err |-> "ok"]

\* workshop.outline_to_bases
outline_to_bases(o, sfx, names, smap) ==
    bases_loop(<<>>, o, sfx, names, smap, 1)

\* an outline has up to MaxDesignSections sections, no name twice, and up
\* to MaxDesignKeys keys
InitDesign ==
    /\ \E names \in SeqsOf(DesignSections, 1, MaxDesignSections) :
        \E sizes \in [DOMAIN names -> 0..MaxDesignKeys] :
            /\ SumTo(sizes, Len(names)) <= MaxDesignKeys
            /\ \E items \in [1..SumTo(sizes, Len(names))
                                -> [key : DesignKeys, value : DesignValues]] :
                /\ \A i \in DOMAIN names :
                      IsDict(Outline(names, sizes, items)[i].section)
                /\ outline = Outline(names, sizes, items)
    /\ contents = EmptyGraph
    /\ subclasses = <<>>
    /\ instances = <<>>
    /\ objects = <<>>
    /\ parameters = <<>>
    /\ prev = <<>>
    /\ last = [op |-> "init", name |-> <<>>, section |-> <<>>]
    /\ ret = <<>>
    /\ director = <<>>
    /\ factory = TRUE
    /\ frames = <<>>
    /\ steps = 0

OutlineToBases ==
    /\ steps = 0
    /\ LET sfx == suffixes(RegistryKeys)
       IN  ret' = outline_to_bases(outline, sfx, outline_nodes(outline, sfx),
                                   outline_to_sections(outline, sfx))
    /\ last' = [op |-> "outline_to_bases", name |-> <<>>, section |-> <<>>]
    /\ steps' = 1
    /\ UNCHANGED <<contents, subclasses, instances, objects, parameters,
                   outline, director, factory, frames, prev>>

\* outline_to_design as outline_to_bases would call it: for a node, with
\* the section that outline_to_sections gives it
OutlineToDesign ==
    /\ steps = 0
    /\ LET sfx == suffixes(RegistryKeys)
           smap == outline_to_sections(outline, sfx)
       IN  \E name \in Range(outline_nodes(outline, sfx)) :
            /\ name \in DOMAIN smap
            /\ ret' = [design |-> outline_to_design(name, smap[name], outline),
                       err |-> "ok"]
            /\ last' = [op |-> "outline_to_design", name |-> name,
                        section |-> smap[name]]
    /\ steps' = 1
    /\ UNCHANGED <<contents, subclasses, instances, objects, parameters,
                   outline, director, factory, frames, prev>>

NextDesign == OutlineToBases \/ OutlineToDesign

SpecDesign == InitDesign /\ [][NextDesign]_vars

-----------------------------------------------------------------------------
(* Director (src/fiat/interface.py)                                        *)

\* number of stages of a Director
MaxStages == 3
\* number of calls made on a Director
MaxDirectorOps == 4

\* the items of the dict of stages, as in basic_director: name -> product
StageItems ==
    {[stage |-> "initialize", product |-> "settings"],
     [stage |-> "draft", product |-> "workflow"],
     [stage |-> "execute", product |-> "summary"]}
\* the products that the module of a Director has a builder create_<product>
\* for: a module with every builder, and one that lacks create_summary
Workshops == {{"settings", "workflow", "summary"}, {"settings", "workflow"}}

\* what create_<product> returns
created(name) == [created |-> name]

\* Director.current: list(self.stages.keys())[self.index]
current(d) == d.stages[d.index + 1].stage

\* Director.subsequent: list(self.stages.keys())[self.index + 1], or None
subsequent(d) ==
    IF d.index + 2 <= Len(d.stages) THEN d.stages[d.index + 2].stage
    ELSE PyNone

\* self.stages[key]
stage_product(d, key) ==
    d.stages[CHOOSE i \in DOMAIN d.stages : d.stages[i].stage = key].product

\* Director.__next__, written so that the index is increased before
\* StopIteration is raised
advance_counting(d) ==
    IF d.index + 1 < Len(d.stages) THEN
        LET target == stage_product(d, subsequent(d))
        IN  IF target \notin d.workshop
            THEN [director |-> d, err |-> "AttributeError", calls |-> <<>>]
            ELSE [director |->
                    [d EXCEPT !.project = Put(@, target, created(target)),
                              !.index = @ + 1],
                  err |-> "ok",
                  calls |-> <<[builder |-> target, project |-> d.project]>>]
    ELSE [director |-> [d EXCEPT !.index = @ + 1], err |-> "StopIteration",
          calls |-> <<>>]

\* Director.__next__, written so that the builder is that of the current
\* stage
advance_current(d) ==
    IF d.index + 1 < Len(d.stages) THEN
        LET target == stage_product(d, current(d))
        IN  IF target \notin d.workshop
            THEN [director |-> d, err |-> "AttributeError", calls |-> <<>>]
            ELSE [director |->
                    [d EXCEPT !.project = Put(@, target, created(target)),
                              !.index = @ + 1],
                  err |-> "ok",
                  calls |-> <<[builder |-> target, project |-> d.project]>>]
    ELSE [director |-> d, err |-> "StopIteration", calls |-> <<>>]

\* Director.advance, that is Director.__next__: the director after the call,
\* how the call ended, and the builders it called with their argument
advance(d) ==
    IF d.index + 1 < Len(d.stages) THEN
        LET target == stage_product(d, subsequent(d))
        IN  IF target \notin d.workshop
            THEN [director |-> d, err |-> "AttributeError", calls |-> <<>>]
            ELSE [director |->
                    [d EXCEPT !.project = Put(@, target, created(target)),
                              !.index = @ + 1],
                  err |-> "ok",
                  calls |-> <<[builder |-> target, project |-> d.project]>>]
    ELSE [director |-> d, err |-> "StopIteration", calls |-> <<>>]

\* the loop of Director.complete: for stage in self.stages: self.advance()
RECURSIVE complete_loop(_, _, _)
complete_loop(d, calls, i) ==
    IF i > Len(d.stages) THEN [director |-> d, err |-> "ok", calls |-> calls]
    ELSE LET r == advance(d)
         IN  IF r.err # "ok"
             THEN [director |-> r.director, err |-> r.err,
                   calls |-> calls \o r.calls]
             ELSE complete_loop(r.director, calls \o r.calls, i + 1)

\* Director.complete
complete(d) == complete_loop(d, <<>>, 1)

\* a Director after __post_init__: index 0, the stages and the module it was
\* given, and a project on which no product is set
InitDirector ==
    /\ \E stages \in SeqsOf(StageItems, 0, MaxStages), workshop \in Workshops :
        director = [project |-> <<>>, stages |-> stages,
                    workshop |-> workshop, index |-> 0]
    /\ contents = EmptyGraph
    /\ subclasses = <<>>
    /\ instances = <<>>
    /\ objects = <<>>
    /\ parameters = <<>>
    /\ outline = <<>>
    /\ factory = TRUE
    /\ frames = <<>>
    /\ prev = <<>>
    /\ last = [op |-> "init", err |-> "ok", calls |-> <<>>, earlier |-> "ok"]
    /\ ret = <<>>
    /\ steps = 0

DirectorCalled(op, r) ==
    /\ prev' = director
    /\ director' = r.director
    /\ last' = [op |-> op, err |-> r.err, calls |-> r.calls,
                earlier |-> last.err]
    /\ steps' = steps + 1
    /\ UNCHANGED <<contents, subclasses, instances, objects, parameters,
                   outline, factory, frames, ret>>

Advance ==
    /\ steps < MaxDirectorOps
    /\ DirectorCalled("advance", advance(director))

Complete ==
    /\ steps < MaxDirectorOps
    /\ DirectorCalled("complete", complete(director))

NextDirector == Advance \/ Complete

SpecDirector == InitDirector /\ [][NextDirector]_vars

-----------------------------------------------------------------------------
(* Executing a Workflow (src/fiat/workshop.py, src/fiat/nodes.py)          *)

\* number of classes defined and components constructed before execution
MaxSetupOps == 2
\* number of calls that execute paths or summarize
MaxExecutionOps == 1

\* the workflows that are executed: two paths from "x" to "porter"; one
\* path from "analyst" through "x" to "porter"; no node at all
ExecutionWorkflows ==
    {[n \in {"x", "analyst", "min_max", "porter"} |->
        CASE n = "x" -> {"analyst", "min_max"}
          [] n = "analyst" -> {"porter"}
          [] n = "min_max" -> {"porter"}
          [] n = "porter" -> {}],
     [n \in {"analyst", "x", "porter"} |->
        CASE n = "analyst" -> {"x"}
          [] n = "x" -> {"porter"}
          [] n = "porter" -> {}],
     EmptyGraph}
\* the classes defined and the names and attributes given to components
\* before execution
ExecutionClasses == {"Analyst", "Porter"}
ExecutionNames == {"x", "analyst"}
ExecutionOverrides == {<<>>, [contents |-> "algorithm"]}
\* how a call of implement ends: it returns, or it raises
ImplementOutcomes == {"ok", "KeyError", "AttributeError", "ValueError"}

\* Component.execute on a component whose implement ends as 'outcome':
\* implement is called only if contents is not None, once per iteration
\* until it raises.  The components of the model have no parameters.
execute(component, outcome) ==
    IF component.contents \notin {PyNone, "none"} THEN
        IF outcome = "ok"
        THEN [err |-> "ok", implemented |-> component.iterations]
        ELSE [err |-> outcome, implemented |-> 1]
    ELSE [err |-> "ok", implemented |-> 0]

\* the body of the loop of workflow_to_result, written so that the KeyError
\* of a node that the library does not resolve is not caught
result_step_stopping(acc, node, outcome) ==
    LET got == instance(acc.lib, <<node>>, <<>>)
    IN  IF got.err # "ok" THEN
            [acc EXCEPT !.err = got.err, !.trace = Append(@,
                [node |-> node, executed |-> FALSE, err |-> got.err,
                 implemented |-> 0])]
        ELSE
            LET done == execute(got.lib.objects[got.ret.id], outcome)
                entry == [node |-> node, executed |-> TRUE, err |-> done.err,
                          implemented |-> done.implemented]
            IN  IF done.err = "ok" THEN
                    [acc EXCEPT !.lib = got.lib,
                                !.result = Append(@, "project"),
                                !.trace = Append(@, entry)]
                ELSE IF done.err \in {"KeyError", "AttributeError"} THEN
                    [acc EXCEPT !.lib = got.lib, !.trace = Append(@, entry)]
                ELSE
                    [acc EXCEPT !.lib = got.lib, !.trace = Append(@, entry),
                                !.err = done.err]

\* the body of the loop of workflow_to_result: the try statement for one
\* node.  'trace' records, for every node met, whether execute was called,
\* how the node ended and how often implement was called.
result_step(acc, node, outcome) ==
    LET got == instance(acc.lib, <<node>>, <<>>)
    IN  IF got.err # "ok" THEN
            [acc EXCEPT !.trace = Append(@,
                [node |-> node, executed |-> FALSE, err |-> got.err,
                 implemented |-> 0])]
        ELSE
            LET done == execute(got.lib.objects[got.ret.id], outcome)
                entry == [node |-> node, executed |-> TRUE, err |-> done.err,
                          implemented |-> done.implemented]
            IN  IF done.err = "ok" THEN
                    [acc EXCEPT !.lib = got.lib,
                                !.result = Append(@, "project"),
                                !.trace = Append(@, entry)]
                ELSE IF done.err \in {"KeyError", "AttributeError"} THEN
                    [acc EXCEPT !.lib = got.lib, !.trace = Append(@, entry)]
                ELSE
                    [acc EXCEPT !.lib = got.lib, !.trace = Append(@, entry),
                                !.err = done.err]

\* the loop of workflow_to_result: for node in path, until an error leaves
\* the try statement; implement raises 'raising.err' at the node
\* 'raising.at' of the path
RECURSIVE result_loop(_, _, _, _)
result_loop(acc, path, raising, i) ==
    IF i > Len(path) \/ acc.err # "ok" THEN acc
    ELSE result_loop(
            result_step(acc, path[i],
                        IF raising.at = i THEN raising.err ELSE "ok"),
            path, raising, i + 1)

\* workshop.workflow_to_result
workflow_to_result(lib, path, raising) ==
    result_loop([lib |-> lib, err |-> "ok", result |-> <<>>, trace |-> <<>>],
                path, raising, 1)

\* workshop.workflow_to_summary: an empty Summary is made and returned; the
\* loop over the paths that would fill it is commented out
workflow_to_summary(g) ==
    [summary |-> <<>>, printed |-> paths(g), err |-> "ok"]

NoExecutionCall ==
    [op |-> "init", path |-> <<>>, raising |-> [at |-> 0, err |-> "ok"],
     err |-> "ok", executions |-> 0]

\* a project with a workflow and a library in which nothing is registered
InitExecution ==
    /\ contents \in ExecutionWorkflows
    /\ subclasses = <<>>
    /\ instances = <<>>
    /\ objects = <<>>
    /\ parameters = <<>>
    /\ outline = <<>>
    /\ director = <<>>
    /\ factory = TRUE
    /\ frames = <<>>
    /\ prev = <<>>
    /\ last = NoExecutionCall
    /\ ret = <<>>
    /\ steps = 0

\* the bookkeeping every call of the execution shares
ExecutionCalled(call, lib, value) ==
    /\ steps' = steps + 1
    /\ prev' = [subclasses |-> subclasses, instances |-> instances,
                objects |-> objects]
    /\ subclasses' = lib.subclasses
    /\ instances' = lib.instances
    /\ objects' = lib.objects
    /\ last' = call
    /\ ret' = value
    /\ UNCHANGED <<contents, parameters, outline, director, factory, frames>>

\* a concrete subclass of Component is defined: __init_subclass__ registers
\* it
DefineClass ==
    /\ steps < MaxSetupOps
    /\ last.executions = 0
    /\ \E cls \in ExecutionClasses :
        ExecutionCalled([NoExecutionCall EXCEPT !.op = "define"],
                        register(TheLibrary, Type(cls)).lib, <<>>)

\* a component is constructed: __post_init__ registers it
ConstructComponent ==
    /\ steps < MaxSetupOps
    /\ last.executions = 0
    /\ \E cls \in ExecutionClasses, name \in ExecutionNames,
          kwargs \in ExecutionOverrides :
        ExecutionCalled([NoExecutionCall EXCEPT !.op = "construct"],
                        construct(TheLibrary, cls, name, kwargs).lib, <<>>)

\* one path of the workflow is executed; at most one implement raises
WorkflowToResult ==
    /\ last.executions < MaxExecutionOps
    /\ \E i \in DOMAIN paths(contents) :
        LET path == paths(contents)[i]
        IN  \E raising \in
                {[at |-> 0, err |-> "ok"]}
                \cup [at : DOMAIN path, err : ImplementOutcomes \ {"ok"}] :
            LET r == workflow_to_result(TheLibrary, path, raising)
            IN  ExecutionCalled(
                    [op |-> "workflow_to_result", path |-> path,
                     raising |-> raising, err |-> r.err,
                     executions |-> last.executions + 1],
                    r.lib,
                    [result |-> r.result, trace |-> r.trace])

\* the summary stage
WorkflowToSummary ==
    /\ last.executions < MaxExecutionOps
    /\ LET r == workflow_to_summary(contents)
       IN  ExecutionCalled(
                [op |-> "workflow_to_summary", path |-> <<>>,
                 raising |-> [at |-> 0, err |-> "ok"], err |-> r.err,
                 executions |-> last.executions + 1],
                TheLibrary,
                [summary |-> r.summary])

NextExecution ==
    DefineClass \/ ConstructComponent \/ WorkflowToResult \/ WorkflowToSummary

SpecExecution == InitExecution /\ [][NextExecution]_vars

-----------------------------------------------------------------------------
(* finalize_serial and _serial_order (src/fiat/workshop.py)                *)

\* number of children a node has in a connections map
MaxChildren == 2

\* the names of a connections map, parents before children: the children
\* of a name are among the names after it, so the map has no cycle
SerialNames == <<"n", "a", "b", "c", "d">>
\* the serial node that is finalized
SerialNode == "n"

\* the names after a name
After(name) ==
    {SerialNames[j] : j \in {k \in DOMAIN SerialNames :
        \E i \in DOMAIN SerialNames : SerialNames[i] = name /\ i < k}}

\* the connections maps: the serial node and some other names, each with
\* its list of children
ConnectionMaps ==
    {m \in UNION {[K \cup {SerialNode} -> SeqsOf(Range(SerialNames), 1,
                                                  MaxChildren)] :
                    K \in SUBSET {"a", "b", "c"}} :
        \A k \in DOMAIN m : Range(m[k]) \subseteq After(k)}

\* a value bound to the name 'connections' in _serial_order: the dict that
\* was passed in or, after a recursive call, the list that call returned
AsDict(m) == [dict |-> m]
AsList(q) == [list |-> q]
\* an item of an organized list: a name or a nested list
AsName(n) == [name |-> n]

\* 'item in connections': a key of the dict, or an item of the list
contains(connections, item) ==
    IF "dict" \in DOMAIN connections THEN item \in DOMAIN connections.dict
    ELSE \E i \in DOMAIN connections.list :
            /\ "name" \in DOMAIN connections.list[i]
            /\ connections.list[i].name = item

\* workshop._serial_order and the loop of its body.  The recursive call
\* rebinds 'connections' to the list it returns; subscripting that list
\* with a name raises TypeError.
RECURSIVE serial_order(_, _)
RECURSIVE serial_items(_, _, _, _)
serial_order(name, connections) ==
    IF "list" \in DOMAIN connections
    THEN [organized |-> <<>>, err |-> "TypeError"]
    ELSE IF name \notin DOMAIN connections.dict
    THEN [organized |-> <<>>, err |-> "KeyError"]
    ELSE serial_items(connections.dict[name], connections, <<>>, 1)

serial_items(components, connections, organized, i) ==
    IF i > Len(components) THEN [organized |-> organized, err |-> "ok"]
    ELSE LET item == components[i]
             appended == Append(organized, AsName(item))
         IN  IF contains(connections, item) THEN
                LET r == serial_order(item, connections)
                IN  IF r.err # "ok" THEN r
                    ELSE serial_items(components, AsList(r.organized),
                                      Append(appended, AsList(r.organized)),
                                      i + 1)
             ELSE serial_items(components, connections, appended, i + 1)

\* more_itertools.collapse: the names of a nested list, left to right
RECURSIVE collapse(_)
collapse(items) ==
    IF items = <<>> THEN <<>>
    ELSE (IF "name" \in DOMAIN items[1] THEN <<items[1].name>>
          ELSE collapse(items[1].list))
         \o collapse(Tail(items))

\* workshop.finalize_serial: the graph, how the call ended, and the nodes
\* handed to extend.  'order' is the order in which extend iterates the
\* endpoints of the graph.
finalize_serial(node, connections, g, order) ==
    LET r == serial_order(node, AsDict(connections))
        flat == collapse(r.organized)
    IN  IF r.err # "ok" THEN [g |-> g, err |-> r.err, nodes |-> <<>>]
        ELSE IF flat # <<>>
        THEN LET e == extend(g, flat, NoArg, order)
             IN  [g |-> e.g, err |-> e.err, nodes |-> flat]
        ELSE [g |-> g, err |-> "ok", nodes |-> flat]

NoSerialCall ==
    [op |-> "init", node |-> "", connections |-> <<>>, nodes |-> <<>>,
     err |-> "ok"]

\* an empty graph, as outline_to_graph makes it
InitSerial ==
    /\ contents = EmptyGraph
    /\ subclasses = <<>>
    /\ instances = <<>>
    /\ objects = <<>>
    /\ parameters = <<>>
    /\ outline = <<>>
    /\ director = <<>>
    /\ factory = TRUE
    /\ frames = <<>>
    /\ prev = EmptyGraph
    /\ last = NoSerialCall
    /\ ret = <<>>
    /\ steps = 0

FinalizeSerial ==
    /\ steps = 0
    /\ \E connections \in ConnectionMaps,
          order \in Orders(endpoints(contents)) :
        LET r == finalize_serial(SerialNode, connections, contents, order)
        IN  /\ contents' = r.g
            /\ last' = [op |-> "finalize_serial", node |-> SerialNode,
                        connections |-> connections, nodes |-> r.nodes,
                        err |-> r.err]
    /\ prev' = contents
    /\ steps' = 1
    /\ UNCHANGED <<subclasses, instances, objects, parameters, outline,
                   director, factory, frames, ret>>

NextSerial == FinalizeSerial

SpecSerial == InitSerial /\ [][NextSerial]_vars

-----------------------------------------------------------------------------
(* Workflow.delete, Workflow.disconnect and Workflow.merge as calls on a    *)
(* workflow that is either Workflow() or made by Workflow.from_adjacency    *)

\* number of calls in one behaviour of SpecEdit, the constructor included
MaxEditOps == 2

\* 'self.contents[start].discard(stop)': a defaultdict(set) stores an empty
\* set under a missing key instead of raising KeyError; a successor set that
\* delete has replaced by None has no discard
disconnect(g, start, stop, default) ==
    IF start \notin DOMAIN g
    THEN IF default THEN Ok(Put(g, start, {})) ELSE Raise(g, "KeyError")
    ELSE IF g[start] = NoneVal THEN Raise(g, "AttributeError")
    ELSE Ok([g EXCEPT ![start] = @ \ {stop}])

\* the items handed to merge: an adjacency map, one node name, or an object
\* that is of no supported type and not hashable
MergeItems ==
    {[kind |-> "adjacency", adj |-> m, node |-> ""] :
        m \in Adjacencies(ItemNodes)}
    \cup {[kind |-> "node", adj |-> EmptyGraph, node |-> n] : n \in ItemNodes}
    \cup {[kind |-> "other", adj |-> EmptyGraph, node |-> ""]}

\* the isinstance chain of merge, then 'self.contents.update(adjacency)'
merge_item(g, item) ==
    IF item.kind = "adjacency" THEN Ok(merge(g, item.adj))
    ELSE IF item.kind = "node" THEN Ok(merge(g, [k \in {item.node} |-> {}]))
    ELSE Raise(g, "TypeError")

EditFromAdjacency == FromAdjacencyWithin(MaxEditOps)

\* delete assigns a new plain dict to 'contents' when it does not raise
Delete ==
    /\ steps < MaxEditOps
    /\ \E node \in GraphNodes :
        LET r == delete(contents, node)
        IN  /\ CalledAs([NoCall EXCEPT !.op = "delete", !.x = node], r,
                        IF r.err = "ok" THEN FALSE ELSE factory)
            /\ UNCHANGED ret

Disconnect ==
    /\ steps < MaxEditOps
    /\ \E start \in GraphNodes, stop \in GraphNodes :
        /\ Called([NoCall EXCEPT !.op = "disconnect", !.x = start, !.y = stop],
                  disconnect(contents, start, stop, factory))
        /\ UNCHANGED ret

Merge ==
    /\ steps < MaxEditOps
    /\ \E item \in MergeItems :
        /\ Called([NoCall EXCEPT !.op = "merge", !.x = item.kind,
                                 !.y = item.node, !.item = item.adj],
                  merge_item(contents, item))
        /\ UNCHANGED ret

NextEdit == EditFromAdjacency \/ Delete \/ Disconnect \/ Merge

SpecEdit == Init /\ [][NextEdit]_vars

-----------------------------------------------------------------------------
(* Workflow.walk, one step at a time: every call of walk that has reached   *)
(* its for loop is a frame that holds its 'path', the successors the loop   *)
(* has still to visit and the 'paths' it has gathered                       *)

\* the largest number of successors of a node in a walked graph
MaxSuccessors == 2

\* the nodes of the walked graphs, and a name that is no node of any
WalkNodes == {"a", "b", "c"}
WalkNames == WalkNodes \cup {"s"}

\* adjacency maps with cycles, self-loops and successors that are no keys
WalkGraphs ==
    UNION {[K -> {T \in SUBSET WalkNodes : Cardinality(T) <= MaxSuccessors}] :
              K \in SUBSET WalkNodes}

NoFrame == [path |-> <<>>, todo |-> <<>>, paths |-> <<>>]

\* the head of walk: 'path = path + [start]', the two early returns, and
\* otherwise the frame of the for loop over self.contents[start]
walk_call(g, start, stop, path) ==
    LET p == Append(path, start)
    IN  IF start = stop
        THEN [returns |-> TRUE, paths |-> <<p>>, frame |-> NoFrame]
        ELSE IF start \notin DOMAIN g
        THEN [returns |-> TRUE, paths |-> <<>>, frame |-> NoFrame]
        ELSE [returns |-> FALSE, paths |-> <<>>,
              frame |-> [path |-> p, todo |-> SetToSeq(g[start]),
                         paths |-> <<>>]]

\* 'return paths': the caller appends every new path to its own 'paths'
walk_return(callers, new_paths) ==
    IF callers = <<>>
    THEN [frames |-> <<>>, returned |-> TRUE, paths |-> new_paths]
    ELSE [frames |-> [callers EXCEPT ![Len(callers)].paths = @ \o new_paths],
          returned |-> FALSE, paths |-> <<>>]

\* the loop as it would be if it tested the path without its last node
walk_step_before_last(g, stop, fs) ==
    LET top == fs[Len(fs)]
        callers == SubSeq(fs, 1, Len(fs) - 1)
    IN  IF top.todo = <<>> THEN walk_return(callers, top.paths)
        ELSE LET node == Head(top.todo)
                 advanced == [top EXCEPT !.todo = Tail(@)]
                 call == walk_call(g, node, stop, top.path)
             IN  IF node \in Range(SubSeq(top.path, 1, Len(top.path) - 1))
                 THEN [frames |-> Append(callers, advanced),
                       returned |-> FALSE, paths |-> <<>>]
                 ELSE IF call.returns
                 THEN [frames |->
                           Append(callers,
                                  [advanced EXCEPT !.paths = @ \o call.paths]),
                       returned |-> FALSE, paths |-> <<>>]
                 ELSE [frames |-> Append(Append(callers, advanced), call.frame),
                       returned |-> FALSE, paths |-> <<>>]

\* one step of the innermost call: the next turn of 'for node in
\* self.contents[start]: if node not in path: ...', or its 'return paths'
walk_step(g, stop, fs) ==
    LET top == fs[Len(fs)]
        callers == SubSeq(fs, 1, Len(fs) - 1)
    IN  IF top.todo = <<>> THEN walk_return(callers, top.paths)
        ELSE LET node == Head(top.todo)
                 advanced == [top EXCEPT !.todo = Tail(@)]
                 call == walk_call(g, node, stop, top.path)
             IN  IF node \in Range(top.path)
                 THEN [frames |-> Append(callers, advanced),
                       returned |-> FALSE, paths |-> <<>>]
                 ELSE IF call.returns
                 THEN [frames |->
                           Append(callers,
                                  [advanced EXCEPT !.paths = @ \o call.paths]),
                       returned |-> FALSE, paths |-> <<>>]
                 ELSE [frames |-> Append(Append(callers, advanced), call.frame),
                       returned |-> FALSE, paths |-> <<>>]

NoWalkCall == [op |-> "init", start |-> "", stop |-> "", state |-> "none"]

InitWalk ==
    /\ contents \in WalkGraphs
    /\ subclasses = <<>>
    /\ instances = <<>>
    /\ objects = <<>>
    /\ parameters = <<>>
    /\ outline = <<>>
    /\ director = <<>>
    /\ factory = FALSE
    /\ frames = <<>>
    /\ prev = <<>>
    /\ last = NoWalkCall
    /\ ret = <<>>
    /\ steps = 0

\* walk(start, stop) is called with 'path' left out, which makes it []
Walk ==
    /\ steps = 0
    /\ \E start \in WalkNames, stop \in WalkNames :
        LET call == walk_call(contents, start, stop, <<>>)
        IN  /\ last' = [op |-> "walk", start |-> start, stop |-> stop,
                        state |-> IF call.returns THEN "returned"
                                  ELSE "running"]
            /\ frames' = IF call.returns THEN <<>> ELSE <<call.frame>>
            /\ ret' = call.paths
    /\ steps' = steps + 1
    /\ UNCHANGED <<contents, subclasses, instances, objects, parameters,
                   outline, director, factory, prev>>

WalkStep ==
    /\ last.state = "running"
    /\ LET r == walk_step(contents, last.stop, frames)
       IN  /\ frames' = r.frames
           /\ ret' = r.paths
           /\ last' = [last EXCEPT
                          !.state = IF r.returned THEN "returned" ELSE @]
    /\ UNCHANGED <<contents, subclasses, instances, objects, parameters,
                   outline, director, factory, prev, steps>>

NextWalk == Walk \/ WalkStep

SpecWalk == InitWalk /\ [][NextWalk]_vars

\* a call that has started keeps running until it returns
FairWalk == SpecWalk /\ WF_vars(WalkStep)

-----------------------------------------------------------------------------
(* Recipe.create (src/fiat/core.py)                                        *)

\* the largest number of nodes of a path, and of components in the catalog
MaxPathLength == 3

RecipeNames == {"a", "b", "c"}

\* the component stored under a name
Stored(name) == <<"component", name>>

\* the catalogs of components: the items of a dict in the order in which
\* the dict iterates them
Catalogs ==
    {[i \in DOMAIN q |-> [key |-> q[i], value |-> Stored(q[i])]] :
        q \in SeqsOf(RecipeNames, 0, MaxPathLength)}

\* '_'.join(path)
RECURSIVE join(_, _)
join(sep, words) ==
    IF words = <<>> THEN <<>>
    ELSE IF Len(words) = 1 THEN <<words[1]>>
    ELSE <<words[1], sep>> \o join(sep, Tail(words))

\* '[v for k, v in components.items() if k in path]'
RECURSIVE needed_values(_, _, _)
needed_values(components, path, i) ==
    IF i > Len(components) THEN <<>>
    ELSE (IF components[i].key \in Range(path)
          THEN <<components[i].value>> ELSE <<>>)
         \o needed_values(components, path, i + 1)

\* 'dict(zip(path, needed))': zip stops at the shorter of the two, and a key
\* that comes again takes the later value
RECURSIVE dict_zip(_, _, _, _)
dict_zip(dct, keys, values, i) ==
    IF i > Len(keys) \/ i > Len(values) THEN dct
    ELSE dict_zip(Put(dct, keys[i], values[i]), keys, values, i + 1)

create(path, components) ==
    [name |-> join("_", path),
     contents |-> dict_zip(<<>>, path, needed_values(components, path, 1), 1)]

NoRecipeCall == [op |-> "init", path |-> <<>>, err |-> "ok"]

InitRecipe ==
    /\ objects \in Catalogs
    /\ contents = EmptyGraph
    /\ subclasses = <<>>
    /\ instances = <<>>
    /\ parameters = <<>>
    /\ outline = <<>>
    /\ director = <<>>
    /\ factory = TRUE
    /\ frames = <<>>
    /\ prev = <<>>
    /\ last = NoRecipeCall
    /\ ret = <<>>
    /\ steps = 0

RecipeCreate ==
    /\ steps = 0
    /\ \E path \in SeqsOf(RecipeNames, 1, MaxPathLength) :
        /\ ret' = create(path, objects)
        /\ last' = [op |-> "create", path |-> path, err |-> "ok"]
    /\ steps' = steps + 1
    /\ UNCHANGED <<contents, subclasses, instances, objects, parameters,
                   outline, director, factory, frames, prev>>

NextRecipe == RecipeCreate

SpecRecipe == InitRecipe /\ [][NextRecipe]_vars

-----------------------------------------------------------------------------
(* The readers of an Outline as calls that may write to it                 *)
(* (src/fiat/workshop.py).  A list stored in the outline is an object with *)
(* an identity, named by its place (section, key) in the outline.          *)

\* number of calls made on one outline
MaxOutlineCalls == 2
\* number of keys of the outline, over all its sections
MaxReadKeys == 2

ReadSections == {<<"a">>, <<"b">>}
\* the keys of a section: "ts", "a_ts" and "b_x"
ReadKeys == {<<"t", "s">>, <<"a", "_", "t", "s">>, <<"b", "_", "x">>}
ReadValues == {[str |-> <<"p">>], [list |-> << <<"q">>, <<"r">> >>]}

\* tools.listify handing back the very list it was given
listify_same_list(value) == "list" \in DOMAIN value

\* whether the list that tools.listify returns is the object it was given:
\* it is a list of its own
listify_same(value) == FALSE

\* the list at a place of the outline replaced by another
WriteList(o, place, values) ==
    [o EXCEPT ![place[1]].section[place[2]].value = [list |-> values]]

\* the body of the inner loop of outline_to_connections for the key at place
\* (i, j).  'held' tells, for every key of connections, the place of the
\* outline whose list is the list stored in connections, or <<>> when that
\* list is no list of the outline: 'connections[...] = values' stores the
\* object listify returned, and 'connections[...].extend(values)' lengthens
\* that object.
connect_key_in_place(st, i, j) ==
    LET item == st.outline[i].section[j]
        divided == divide_string(item.key)
        values == listify(item.value)
        owner == IF divided.prefix = divided.suffix THEN st.outline[i].name
                 ELSE divided.prefix
    IN  IF owner \in DOMAIN st.connections
        THEN LET extended == st.connections[owner] \o values
             IN  [connections |-> Put(st.connections, owner, extended),
                  held |-> st.held,
                  outline |-> IF st.held[owner] # <<>>
                              THEN WriteList(st.outline, st.held[owner],
                                             extended)
                              ELSE st.outline]
        ELSE [connections |-> Put(st.connections, owner, values),
              held |-> Put(st.held, owner,
                           IF listify_same(item.value) THEN <<i, j>>
                           ELSE <<>>),
              outline |-> st.outline]

\* the two loops of outline_to_connections over the places of the outline;
\* the keys of a section are listed before its loop starts
RECURSIVE connect_in_place(_, _, _, _)
connect_in_place(st, sfx, i, j) ==
    IF i > Len(st.outline) THEN st
    ELSE IF j > Len(st.outline[i].section)
    THEN connect_in_place(st, sfx, i + 1, 1)
    ELSE IF endswith(st.outline[i].section[j].key, sfx)
    THEN connect_in_place(connect_key_in_place(st, i, j), sfx, i, j + 1)
    ELSE connect_in_place(st, sfx, i, j + 1)

\* outline_to_connections: the map it returns and the outline it leaves
connections_in_place(o, sfx) ==
    connect_in_place([connections |-> <<>>, held |-> <<>>, outline |-> o],
                     sfx, 1, 1)

NoReadCall == [op |-> "init", err |-> "ok"]

\* an outline has one or two sections, no name twice, and up to MaxReadKeys
\* keys
InitRead ==
    /\ \E names \in SeqsOf(ReadSections, 1, 2) :
        \E sizes \in [DOMAIN names -> 0..MaxReadKeys] :
            /\ SumTo(sizes, Len(names)) <= MaxReadKeys
            /\ \E items \in [1..SumTo(sizes, Len(names))
                                -> [key : ReadKeys, value : ReadValues]] :
                /\ \A i \in DOMAIN names :
                      IsDict(Outline(names, sizes, items)[i].section)
                /\ outline = Outline(names, sizes, items)
    /\ contents = EmptyGraph
    /\ subclasses = <<>>
    /\ instances = <<>>
    /\ objects = <<>>
    /\ parameters = <<>>
    /\ director = <<>>
    /\ factory = TRUE
    /\ frames = <<>>
    /\ prev = [outline |-> <<>>, ret |-> <<>>, last |-> NoReadCall]
    /\ last = NoReadCall
    /\ ret = <<>>
    /\ steps = 0

\* the bookkeeping of a call that leaves the outline as 'o'
ReadCalled(op, o, value, err) ==
    /\ steps' = steps + 1
    /\ prev' = [outline |-> outline, ret |-> ret, last |-> last]
    /\ outline' = o
    /\ ret' = value
    /\ last' = [op |-> op, err |-> err]
    /\ UNCHANGED <<contents, subclasses, instances, objects, parameters,
                   director, factory, frames>>

ReadConnections ==
    /\ steps < MaxOutlineCalls
    /\ LET r == connections_in_place(outline, suffixes(RegistryKeys))
       IN  ReadCalled("outline_to_connections", r.outline, r.connections,
                      "ok")

\* outline_to_sections stores names in a dict of its own and calls no method
\* of a list
ReadSectionsOf ==
    /\ steps < MaxOutlineCalls
    /\ ReadCalled("outline_to_sections", outline,
                  outline_to_sections(outline, suffixes(RegistryKeys)), "ok")

\* outline_to_bases with the nodes and the sections that outline_to_workflow
\* hands it
ReadBases ==
    /\ steps < MaxOutlineCalls
    /\ LET sfx == suffixes(RegistryKeys)
           r == outline_to_bases(outline, sfx, outline_nodes(outline, sfx),
                                 outline_to_sections(outline, sfx))
       IN  ReadCalled("outline_to_bases", outline, r.bases, r.err)

NextRead == ReadConnections \/ ReadSectionsOf \/ ReadBases

SpecRead == InitRead /\ [][NextRead]_vars

-----------------------------------------------------------------------------
(* Component.execute, one call of implement at a time (src/fiat/nodes.py)  *)

\* the largest integer given as a number of iterations
MaxIterations == 2
\* the number of calls of implement after which a behaviour is not followed
\* further: a loop that runs for ever is cut there
MaxImplementCalls == 3

\* 'iterations': an integer, or the string 'infinite'
IterationCounts ==
    {[given |-> TRUE, infinite |-> FALSE, count |-> n] : n \in 0..MaxIterations}
    \cup {[given |-> TRUE, infinite |-> TRUE, count |-> 0]}
\* the argument 'iterations' left out: None
NoIterations == [given |-> FALSE, infinite |-> FALSE, count |-> 0]

\* the projects that are handed to execute and that implement returns; the
\* implement of Component itself returns None
ProjectValues == {"project", "changed", PyNone}

\* 'parameters' of a component: empty, a dict that is no Parameters, and a
\* Parameters whose finalize returns or raises KeyError
ComponentParameters ==
    {[filled |-> FALSE, is_parameters |-> TRUE, finalize |-> "ok"],
     [filled |-> TRUE, is_parameters |-> FALSE, finalize |-> "ok"],
     [filled |-> TRUE, is_parameters |-> TRUE, finalize |-> "ok"],
     [filled |-> TRUE, is_parameters |-> TRUE, finalize |-> "KeyError"]}

ExecutedComponents ==
    [contents : {PyNone, "none", "x"},
     parameters : ComponentParameters,
     iterations : IterationCounts]

\* execute as it would be if its for loop ran once more than 'iterations'
execute_call_once_more(component, project, given) ==
    LET iterations == IF ~given.given THEN component.iterations ELSE given
    IN  IF component.contents \notin {PyNone, "none"} THEN
            IF component.parameters.filled
               /\ component.parameters.is_parameters
               /\ component.parameters.finalize # "ok"
            THEN [state |-> "raised", err |-> component.parameters.finalize,
                  frames |-> <<>>, ret |-> PyNone]
            ELSE [state |-> "running", err |-> "ok",
                  frames |-> <<[infinite |-> iterations.infinite,
                                remaining |-> iterations.count + 1,
                                project |-> project]>>,
                  ret |-> PyNone]
        ELSE [state |-> "returned", err |-> "ok", frames |-> <<>>,
              ret |-> project]

\* execute up to its loop: 'iterations' defaults to self.iterations; with
\* contents None the body is skipped and 'project' is returned; otherwise
\* the parameters are made ready, which raises what finalize raises, and the
\* loop starts
execute_call(component, project, given) ==
    LET iterations == IF ~given.given THEN component.iterations ELSE given
    IN  IF component.contents \notin {PyNone, "none"} THEN
            IF component.parameters.filled
               /\ component.parameters.is_parameters
               /\ component.parameters.finalize # "ok"
            THEN [state |-> "raised", err |-> component.parameters.finalize,
                  frames |-> <<>>, ret |-> PyNone]
            ELSE [state |-> "running", err |-> "ok",
                  frames |-> <<[infinite |-> iterations.infinite,
                                remaining |-> iterations.count,
                                project |-> project]>>,
                  ret |-> PyNone]
        ELSE [state |-> "returned", err |-> "ok", frames |-> <<>>,
              ret |-> project]

\* 'project = self.implement(project = project, **parameters)' in either
\* loop, for an implement that returns 'returned' or raises 'err'
implement_step(frame, returned, err) ==
    IF err # "ok"
    THEN [state |-> "raised", err |-> err, frames |-> <<>>, ret |-> PyNone]
    ELSE [state |-> "running", err |-> "ok",
          frames |-> <<[frame EXCEPT
                           !.remaining = IF frame.infinite THEN @ ELSE @ - 1,
                           !.project = returned]>>,
          ret |-> PyNone]

NoExecuteCall ==
    [op |-> "init", project |-> PyNone, iterations |-> NoIterations,
     calls |-> <<>>, state |-> "none", err |-> "ok"]

InitExecute ==
    /\ \E component \in ExecutedComponents : objects = <<component>>
    /\ contents = EmptyGraph
    /\ subclasses = <<>>
    /\ instances = <<>>
    /\ parameters = <<>>
    /\ outline = <<>>
    /\ director = <<>>
    /\ factory = TRUE
    /\ frames = <<>>
    /\ prev = <<>>
    /\ last = NoExecuteCall
    /\ ret = PyNone
    /\ steps = 0

Execute ==
    /\ steps = 0
    /\ \E project \in ProjectValues,
          given \in IterationCounts \cup {NoIterations} :
        LET r == execute_call(objects[1], project, given)
        IN  /\ last' = [op |-> "execute", project |-> project,
                        iterations |-> given, calls |-> <<>>,
                        state |-> r.state, err |-> r.err]
            /\ frames' = r.frames
            /\ ret' = r.ret
    /\ steps' = steps + 1
    /\ UNCHANGED <<contents, subclasses, instances, objects, parameters,
                   outline, director, factory, prev>>

\* one turn of 'while True' or of 'for _ in range(iterations)'
Implement ==
    /\ last.state = "running"
    /\ frames[1].infinite \/ frames[1].remaining > 0
    /\ Len(last.calls) < MaxImplementCalls
    /\ \E returned \in ProjectValues, err \in {"ok", "ValueError"} :
        LET r == implement_step(frames[1], returned, err)
        IN  /\ frames' = r.frames
            /\ ret' = r.ret
            /\ last' = [last EXCEPT
                           !.state = r.state, !.err = r.err,
                           !.calls = Append(@, [given |-> frames[1].project,
                                                returned |-> returned,
                                                err |-> err])]
    /\ UNCHANGED <<contents, subclasses, instances, objects, parameters,
                   outline, director, factory, prev, steps>>

\* the for loop is exhausted: 'return project'
Return ==
    /\ last.state = "running"
    /\ ~frames[1].infinite
    /\ frames[1].remaining = 0
    /\ ret' = frames[1].project
    /\ frames' = <<>>
    /\ last' = [last EXCEPT !.state = "returned"]
    /\ UNCHANGED <<contents, subclasses, instances, objects, parameters,
                   outline, director, factory, prev, steps>>

NextExecute == Execute \/ Implement \/ Return

SpecExecute == InitExecute /\ [][NextExecute]_vars

\* a call that has started goes on until it returns or raises
FairExecute == SpecExecute /\ WF_vars(Implement) /\ WF_vars(Return)

-----------------------------------------------------------------------------
(* Graph vocabulary of the claims                                          *)

\* the nodes reachable from n through one or more edges
RECURSIVE ReachFrom(_, _, _)
ReachFrom(g, frontier, seen) ==
    LET next == UNION {g[k] : k \in frontier \cap DOMAIN g} \ seen
    IN  IF next = {} THEN seen ELSE ReachFrom(g, next, seen \cup next)

Descends(g, n) ==
    LET first == IF n \in DOMAIN g THEN g[n] ELSE {}
    IN  ReachFrom(g, first, first)

Acyclic(g) == \A n \in DOMAIN g : n \notin Descends(g, n)

\* the simple paths of g that follow its edges from a node without incoming
\* edge to a node without outgoing edge, grown one edge at a time
Successors(g, n) == IF n \in DOMAIN g THEN g[n] ELSE {}

RECURSIVE Grow(_, _, _)
Grow(g, P, acc) ==
    LET longer == UNION {{Append(p, n) : n \in Successors(g, p[Len(p)]) \ Range(p)}
                         : p \in P}
    IN  IF longer = {} THEN acc ELSE Grow(g, longer, acc \cup longer)

SimplePaths(g) ==
    LET from == {<<k>> : k \in {n \in DOMAIN g : \A j \in DOMAIN g : n \notin g[j]}}
    IN  {p \in Grow(g, from, from) :
            p[Len(p)] \in DOMAIN g /\ g[p[Len(p)]] = {}}

\* the nodes and edges of g among the nodes of S
Induced(g, S) == [k \in DOMAIN g \cap S |-> g[k] \cap S]

\* q occurs in p as a subsequence, in order
IsSubsequence(q, p) ==
    \E f \in [DOMAIN q -> DOMAIN p] :
        /\ \A i \in DOMAIN q : p[f[i]] = q[i]
        /\ \A i, j \in DOMAIN q : i < j => f[i] < f[j]

-----------------------------------------------------------------------------
(* Claims                                                                  *)

\* C1: after any sequence of add, connect and extend calls from an empty
\* workflow the stored graph is acyclic (no node reaches itself).
C1_Acyclic == Acyclic(contents)

\* C2: connect(x, x) raises ValueError and leaves the graph as it was.
C2_SelfLoopRejected ==
    (last.op = "connect" /\ last.x = last.y) =>
        (last.err = "ValueError" /\ contents = prev)

C2_Witness ==
    /\ last.op = "connect" /\ last.x = last.y
    /\ last.x \in DOMAIN prev /\ prev[last.x] # {}

\* C3: for start # stop, after connect(start, stop) both are nodes of the
\* graph and stop is a successor of start, whichever of them were absent.
C3_ConnectInsertsBoth ==
    (last.op = "connect" /\ last.x # last.y) =>
        /\ last.err = "ok"
        /\ {last.x, last.y} \subseteq DOMAIN contents
        /\ last.y \in contents[last.x]

\* C4: after a successful extend([a, b, c]) with distinct a, b, c, paths holds
\* a path in which a, b, c occur in that order.
C4_ExtendYieldsPath ==
    (last.op = "extend" /\ Len(last.nodes) = 3 /\ last.err = "ok") =>
        \E i \in DOMAIN paths(contents) :
            IsSubsequence(last.nodes, paths(contents)[i])

\* C5: branchify(groups, start = [s]) on the workflow whose only node is s
\* leaves exactly one path per member of the Cartesian product of the groups,
\* each prefixed by s.
C5_BranchifyProduct ==
    (/\ last.op = "branchify"
     /\ prev = Put(EmptyGraph, "s", {})
     /\ last.start = Arg(<<"s">>)) =>
        /\ last.err = "ok"
        /\ Len(paths(contents)) = Len(product(last.groups, 1))
        /\ Range(paths(contents)) =
               {<<"s">> \o p : p \in Range(product(last.groups, 1))}

C7_MissingDescendant ==
    (/\ last.op = "add" /\ last.other.given
     /\ \E i \in DOMAIN last.other.val : last.other.val[i] \notin DOMAIN prev) =>
        (last.err = "KeyError" /\ contents = prev)

C7_Witness ==
    /\ last.op = "add" /\ last.other.given /\ Len(last.other.val) = 2
    /\ last.other.val[1] \in DOMAIN prev
    /\ last.other.val[2] \notin DOMAIN prev
    /\ last.x \notin DOMAIN prev

\* C8: subset(include, exclude) returns the graph of the surviving nodes with
\* exactly the original edges between them, and leaves the workflow unchanged
\* (stated for a workflow whose successors are all nodes, and for the calls
\* that pass a list as exclude and, when they pass include, a list that is
\* not empty).
C8_SubsetInduced ==
    (/\ last.op = "subset" /\ last.other.given
     /\ last.start.given => last.start.val # <<>>
     /\ UNION Range(prev) \subseteq DOMAIN prev) =>
        /\ last.err = "ok"
        /\ contents = prev
        /\ ret = Induced(prev,
                   {k \in DOMAIN prev :
                       /\ last.start.given => k \in Range(last.start.val)
                       /\ last.other.given => k \notin Range(last.other.val)})

\* C9: after append(item) every former endpoint has an edge to every root of
\* item; after prepend(item) every endpoint of item has an edge to every
\* former root (stated for the calls that return, with an item that shares
\* no node with the workflow).
C9_AppendPrependWire ==
    LET apart == (DOMAIN last.item \cup UNION Range(last.item))
                     \cap (DOMAIN prev \cup UNION Range(prev)) = {}
    IN  /\ (last.op = "append" /\ last.err = "ok" /\ apart) =>
               \A e \in endpoints(prev), r \in roots(last.item) :
                   r \in contents[e]
        /\ (last.op = "prepend" /\ last.err = "ok" /\ apart) =>
               \A e \in endpoints(last.item), r \in roots(prev) :
                   r \in contents[e]

\* C10: the adjacency of a workflow built by from_adjacency(m) equals m.
C10_AdjacencyRoundTrip ==
    last.op = "from_adjacency" => adjacency(contents) = last.item

C10_Witness ==
    /\ last.op = "from_adjacency"
    /\ \E k \in DOMAIN contents : contents[k] = {}
    /\ \E k \in DOMAIN contents : contents[k] \ DOMAIN contents # {}

-----------------------------------------------------------------------------
(* Library vocabulary of the claims                                        *)

\* the position in names of the first candidate that is a key of one of the
\* catalogs of lib, 0 when no candidate is
FirstHit(lib, names) ==
    LET hits == {i \in DOMAIN names :
                    names[i] \in DOMAIN lib.instances \cup DOMAIN lib.subclasses}
    IN  IF hits = {} THEN 0 ELSE CHOOSE i \in hits : \A j \in hits : i <= j

\* the attributes of a Component of the model
Attributes == {"cls", "name", "contents", "iterations"}

-----------------------------------------------------------------------------
(* Claims on the Library                                                   *)

(* C11: Library.instance(names, **overrides) takes the first candidate     *)
(* that is in a catalog, looking in instances before subclasses.  A type   *)
(* gives a newly constructed object of that type whose name is the first   *)
(* candidate and which carries the overrides; a stored instance gives a    *)
(* new object equal to it but for the overrides; no match is a KeyError.   *)
C11_InstanceResolves ==
    last.op = "instance" =>
        LET i == FirstHit(prev, last.names)
        IN  IF i = 0 THEN last.err = "KeyError"
            ELSE /\ last.err = "ok"
                 /\ ret.kind = "object"
                 /\ ret.id \notin DOMAIN prev.objects
                 /\ \A a \in DOMAIN last.kwargs :
                        objects[ret.id][a] = last.kwargs[a]
                 /\ LET key == last.names[i]
                    IN  IF key \in DOMAIN prev.instances
                        THEN \A a \in Attributes \ DOMAIN last.kwargs :
                                objects[ret.id][a] =
                                    prev.objects[prev.instances[key]][a]
                        ELSE /\ objects[ret.id].cls = prev.subclasses[key]
                             /\ objects[ret.id].name = last.names[1]

\* instance skipped a first candidate that is in no catalog and took, with
\* overrides, a second one that is in both catalogs
C11_Witness ==
    /\ last.op = "instance" /\ last.err = "ok"
    /\ last.kwargs # <<>>
    /\ FirstHit(prev, last.names) = 2
    /\ last.names[2] \in DOMAIN prev.instances \cap DOMAIN prev.subclasses

(* C12: Library.select(names) returns a type: the first candidate that is  *)
(* in a catalog decides, subclasses being looked in before instances, and  *)
(* a stored instance gives its type; no match is a KeyError.  The catalogs *)
(* are the same after the call.                                            *)
C12_SelectReturnsType ==
    last.op = "select" =>
        /\ subclasses = prev.subclasses
        /\ instances = prev.instances
        /\ objects = prev.objects
        /\ LET i == FirstHit(prev, last.names)
           IN  IF i = 0 THEN last.err = "KeyError"
               ELSE /\ last.err = "ok"
                    /\ ret.kind = "type"
                    /\ LET key == last.names[i]
                       IN  ret.cls =
                             IF key \in DOMAIN prev.subclasses
                             THEN prev.subclasses[key]
                             ELSE prev.objects[prev.instances[key]].cls

\* select took a candidate that is in both catalogs, under which the type
\* registered is not the type of the instance stored
C12_Witness ==
    /\ last.op = "select" /\ last.err = "ok"
    /\ \E i \in DOMAIN last.names :
        /\ i = FirstHit(prev, last.names)
        /\ last.names[i] \in DOMAIN prev.instances \cap DOMAIN prev.subclasses
        /\ prev.subclasses[last.names[i]] #
              prev.objects[prev.instances[last.names[i]]].cls

(* C13: two calls of Library.instance with the same names return two       *)
(* distinct objects, and setting an attribute of a returned object changes *)
(* no other object and no entry stored in the instances catalog.           *)
C13_NoSharedState ==
    /\ (/\ last.op = "instance" /\ last.err = "ok"
        /\ prev.last.op = "instance" /\ prev.last.err = "ok"
        /\ prev.last.names = last.names)
       => ret.id # prev.ret.id
    /\ last.op = "setattr" =>
        /\ \A o \in DOMAIN prev.objects \ {last.component.id} :
               objects[o] = prev.objects[o]
        /\ \A k \in DOMAIN prev.instances :
               objects[instances[k]] = prev.objects[prev.instances[k]]

\* the catalogs c2 are the catalogs c1 but for the entry under key
SameBut(c1, c2, key) ==
    /\ DOMAIN c1 \subseteq DOMAIN c2
    /\ DOMAIN c2 \subseteq DOMAIN c1 \cup {key}
    /\ \A k \in DOMAIN c1 \ {key} : c2[k] = c1[k]

\* the component the last call registered: the argument of register, or
\* the object a caller constructed
RegisteredComponent ==
    IF last.op = "construct" THEN ret ELSE last.component

Categories == {"laborer", "manager", "task", "worker"}

(* C15: Library.classify(name) returns a category, 'laborer', 'manager',   *)
(* 'task' or 'worker', in which the name is registered, and raises         *)
(* TypeError, and no other error, for a name registered in no category.    *)
C15_ClassifyCategory ==
    last.op = "classify" =>
        LET matching == {c \in Categories : last.names[1] \in OfKind(prev, c)}
        IN  IF matching = {} THEN last.err = "TypeError"
            ELSE /\ last.err = "ok"
                 /\ ret.kind = "other"
                 /\ ret.val \in matching

-----------------------------------------------------------------------------
(* Claims on Parameters                                                    *)

\* the section of the settings of the project that matches the name of the
\* Parameters, empty when there is none to read
SettingsLayer(self, project) ==
    IF project.has_settings /\ from_settings(self, project.settings).err = "ok"
    THEN from_settings(self, project.settings).val
    ELSE <<>>

\* the layers in increasing priority: default, overrides, settings section,
\* runtime-derived values, contents
Layered(self, project, kwargs) ==
    Update(Update(Update(Update(self.default, kwargs),
                         SettingsLayer(self, project)),
                  at_runtime(self, project)),
           self.contents)

(* C16: after Parameters.finalize(project, **overrides) every key of       *)
(* contents has the value of the highest layer that defines it, the layers *)
(* being, in increasing priority: default, overrides, the matching section *)
(* of the project settings, the runtime-derived values of implementation,  *)
(* the values already in contents.                                         *)
C16_LayerPriority ==
    (last.op = "finalize" /\ last.err = "ok") =>
        LET expected == Layered(prev.parameters, last.project, last.kwargs)
        IN  \A k \in DOMAIN parameters.contents :
                /\ k \in DOMAIN expected
                /\ parameters.contents[k] = expected[k]

(* C17: when selected is not empty, finalize raises no error and leaves in *)
(* contents no key outside selected.                                       *)
C17_SelectedOnly ==
    (last.op = "finalize" /\ prev.parameters.selected # <<>>) =>
        /\ last.err = "ok"
        /\ DOMAIN parameters.contents \subseteq Range(prev.parameters.selected)

(* C18: finalize is idempotent: a second call with the project and the     *)
(* overrides of the first leaves contents as the first call left it.       *)
C18_Idempotent ==
    (/\ last.op = "finalize" /\ last.err = "ok"
     /\ prev.last.op = "finalize" /\ prev.last.err = "ok"
     /\ prev.last.project = last.project
     /\ prev.last.kwargs = last.kwargs)
    => parameters.contents = prev.parameters.contents

-----------------------------------------------------------------------------
(* Claims on the connections of an Outline                                 *)

\* the keys of an outline in the order they are met, each with the name of
\* its section
RECURSIVE Flat(_, _)
Flat(sections, i) ==
    IF i > Len(sections) THEN <<>>
    ELSE [j \in DOMAIN sections[i].section |->
            [name |-> sections[i].name,
             key |-> sections[i].section[j].key,
             value |-> sections[i].section[j].value]]
         \o Flat(sections, i + 1)

\* a key that ends in a recognized suffix
IsDeclaring(item) == endswith(item.key, suffixes(RegistryKeys))

\* the keys met in the outline that end in a recognized suffix
Declaring(flat) == {k \in DOMAIN flat : IsDeclaring(flat[k])}

\* the owner of a key: its section when its prefix equals its suffix, its
\* prefix otherwise
Owner(item) ==
    IF divide_string(item.key).prefix = divide_string(item.key).suffix
    THEN item.name ELSE divide_string(item.key).prefix

\* the children of the declaring keys of an owner, from the k-th key met on
RECURSIVE Gather(_, _, _)
Gather(flat, owner, k) ==
    IF k > Len(flat) THEN <<>>
    ELSE (IF IsDeclaring(flat[k]) /\ Owner(flat[k]) = owner
          THEN listify(flat[k].value) ELSE <<>>)
         \o Gather(flat, owner, k + 1)

\* q is p[at], p[at + 1], ...
OccursAt(q, p, at) ==
    /\ at + Len(q) - 1 <= Len(p)
    /\ \A i \in DOMAIN q : p[at + i - 1] = q[i]

(* C19: outline_to_connections gives every owner the children of all the   *)
(* keys that resolve to it, in one section or in several, concatenated in  *)
(* the order the keys are met, the children of each key once: a later key  *)
(* never replaces the children of an earlier one.                          *)
C19_Accumulates ==
    last.op = "outline_to_connections" =>
        LET flat == Flat(outline, 1)
        IN  \A owner \in DOMAIN ret : ret[owner] = Gather(flat, owner, 1)

\* an owner has the children of three keys, of two sections
C19_Witness ==
    /\ last.op = "outline_to_connections"
    /\ LET flat == Flat(outline, 1)
       IN  \E k1, k2, k3 \in Declaring(flat) :
            /\ k1 < k2 /\ k2 < k3
            /\ Owner(flat[k1]) = Owner(flat[k2])
            /\ Owner(flat[k2]) = Owner(flat[k3])
            /\ flat[k1].name # flat[k3].name
            /\ Len(ret[Owner(flat[k1])]) >= 4

(* C20: for every section S and every key of S that ends in a recognized   *)
(* suffix, the children of the key are among the connections of S when the *)
(* prefix of the key equals its suffix, and of the prefix otherwise; the   *)
(* other keys give no owner and no child.                                  *)
C20_Attribution ==
    last.op = "outline_to_connections" =>
        LET flat == Flat(outline, 1)
            declaring == Declaring(flat)
        IN  /\ DOMAIN ret = {Owner(flat[k]) : k \in declaring}
            /\ \A k \in declaring :
                  \E at \in 1..(Len(ret[Owner(flat[k])]) + 1) :
                      OccursAt(listify(flat[k].value), ret[Owner(flat[k])], at)
            /\ \A owner \in DOMAIN ret :
                  Len(ret[owner]) = Len(Gather(flat, owner, 1))
            /\ \A owner \in DOMAIN ret :
                  \A i \in DOMAIN ret[owner] :
                      \E k \in declaring :
                          /\ Owner(flat[k]) = owner
                          /\ \E j \in DOMAIN listify(flat[k].value) :
                                listify(flat[k].value)[j] = ret[owner][i]

\* a key whose prefix equals its suffix gave its children to its section,
\* a key of that section gave its children to its prefix, and a key that
\* ends in no recognized suffix was met
C20_Witness ==
    /\ last.op = "outline_to_connections"
    /\ LET flat == Flat(outline, 1)
           declaring == Declaring(flat)
       IN  /\ \E k \in declaring :
                /\ Owner(flat[k]) = flat[k].name
                /\ \E i \in DOMAIN flat[k].key : flat[k].key[i] = "_"
                /\ \E m \in declaring :
                     /\ flat[m].name = flat[k].name
                     /\ Owner(flat[m]) # flat[m].name
                     /\ Owner(flat[m]) \in DOMAIN ret
           /\ DOMAIN flat # declaring

-----------------------------------------------------------------------------
(* Claims on the designs of the nodes of an Outline                        *)

\* the declaring keys of the outline that list a node among their values
DeclaringOf(n) ==
    {item \in Range(Flat(outline, 1)) :
        IsDeclaring(item) /\ n \in Range(listify(item.value))}

\* the designs a node is given explicitly, first to last: <name>_design and
\* design in its own section, <name>_design in a section that declares it
ExplicitDesigns(n) ==
    LET own == Lookup(outline, n, name_design(n))
        plain == Lookup(outline, n, DesignKey)
        owning == {Lookup(outline, item.name, name_design(n)).value :
                     item \in {x \in DeclaringOf(n) :
                        Lookup(outline, x.name, name_design(n)).found}}
    IN  IF own.found THEN {own.value}
        ELSE IF plain.found THEN {plain.value}
        ELSE owning

\* the suffixes of the keys that declare a node, a trailing 's' dropped
DefaultDesigns(n) ==
    {[str |-> LET suffix == divide_string(item.key).suffix
              IN  IF ends_with(suffix, <<"s">>)
                  THEN SubSeq(suffix, 1, Len(suffix) - 1) ELSE suffix] :
        item \in DeclaringOf(n)}

\* C21: outline_to_bases gives every node one design: its explicit design
\* when it has one (<name>_design, then design, in its own section, then
\* <name>_design in the owning section), and otherwise the suffix of its
\* declaring key without the trailing 's'; a node with an explicit design
\* never has the suffix-derived default instead.
C21_DesignOrder ==
    last.op = "outline_to_bases" =>
        /\ ret.err = "ok"
        /\ \A n \in Range(outline_nodes(outline, suffixes(RegistryKeys))) :
              ExplicitDesigns(n) \cup DefaultDesigns(n) # {} =>
                /\ n \in DOMAIN ret.bases
                /\ IF ExplicitDesigns(n) # {}
                   THEN ret.bases[n] \in ExplicitDesigns(n)
                   ELSE ret.bases[n] \in DefaultDesigns(n)

\* C22: a node that has neither an explicit design nor a suffix-derived
\* default makes the resolution of its design fail with an error; it does
\* not end with the design None.
C22_UnresolvedFails ==
    (/\ last.op = "outline_to_design"
     /\ ExplicitDesigns(last.name) = {}
     /\ DefaultDesigns(last.name) = {}) =>
        /\ ret.err # "ok"
        /\ ret.design # NoDesign

-----------------------------------------------------------------------------
(* Claims on the Director                                                  *)

\* the module of the director has a builder for every product of its stages
AllBuilders(d) ==
    \A i \in DOMAIN d.stages : d.stages[i].product \in d.workshop

\* the products of the stages after the current one, in stage order
Remaining(d) ==
    [i \in 1..(Len(d.stages) - d.index - 1) |->
        d.stages[d.index + 1 + i].product]

\* C23: on a Director with three stages, every advance() made before three
\* advances have succeeded succeeds, and the stop condition is raised only
\* once three have succeeded (the index counts the advances that succeeded).
C23_ThreeAdvances ==
    (/\ last.op = "advance"
     /\ Len(prev.stages) = 3
     /\ AllBuilders(prev)) =>
        /\ prev.index < 3 => last.err = "ok"
        /\ last.err = "StopIteration" => prev.index = 3

\* C24: complete(), called at any stage index, returns normally, having
\* called the builders of all remaining stages in stage order, with the
\* director at the last stage.
C24_CompleteRuns ==
    (/\ last.op = "complete"
     /\ Len(prev.stages) > 0
     /\ AllBuilders(prev)) =>
        /\ last.err = "ok"
        /\ [i \in DOMAIN last.calls |-> last.calls[i].builder]
             = Remaining(prev)
        /\ director.index = Len(director.stages) - 1

\* C25: advance() called when there is no subsequent stage raises
\* StopIteration, calls no builder and leaves the index and the project as
\* they were, on every call.
C25_StopLeavesAll ==
    (/\ last.op = "advance"
     /\ prev.index + 1 >= Len(prev.stages)) =>
        /\ last.err = "StopIteration"
        /\ last.calls = <<>>
        /\ director = prev

\* advance() raised StopIteration twice in a row at the last of three
\* stages, after two advances that succeeded
C25_Witness ==
    /\ last.op = "advance"
    /\ last.err = "StopIteration"
    /\ last.earlier = "StopIteration"
    /\ Len(director.stages) = 3
    /\ director.index = 2
    /\ DOMAIN director.project # {}

\* a successful advance() calls one builder, that of the product of the
\* subsequent stage, with the project, stores what it returns on the project
\* under the name of the product and adds one to the index; any call builds
\* products in stage order and moves the index by the number it built
AdvanceBuildsNext ==
    /\ (last.op = "advance" /\ last.err = "ok") =>
          LET target == stage_product(prev, subsequent(prev))
          IN  /\ last.calls = <<[builder |-> target, project |-> prev.project]>>
              /\ director.project = Put(prev.project, target, created(target))
              /\ director.index = prev.index + 1
              /\ director.stages = prev.stages
    /\ last.op # "init" =>
          /\ director.index = prev.index + Len(last.calls)
          /\ \A i \in DOMAIN last.calls :
                last.calls[i].builder = prev.stages[prev.index + 1 + i].product

\* C30 as stated: each successful advance() calls exactly one builder,
\* create_<product of the subsequent stage>, with the project, stores its
\* result on the project and adds one to the index; products are built in
\* stage order, the index never decreases or skips a stage, and
\* 0 <= index < number of stages always holds.
C30_AdvanceBuildsNextInRange ==
    /\ AdvanceBuildsNext
    /\ 0 <= director.index
    /\ director.index < Len(director.stages)

\* C30, amended: as stated, with 0 <= index < number of stages holding for
\* every Director that has a stage; a Director without stages has index 0.
C30_AdvanceBuildsNextStaged ==
    /\ AdvanceBuildsNext
    /\ 0 <= director.index
    /\ IF Len(director.stages) > 0
       THEN director.index < Len(director.stages)
       ELSE director.index = 0

\* the second advance() of a Director with three stages succeeded
C30_Witness ==
    /\ last.op = "advance"
    /\ last.err = "ok"
    /\ prev.index = 1
    /\ director.index = 2
    /\ Len(director.stages) = 3

-----------------------------------------------------------------------------
(* Claims on the execution of a Workflow                                   *)

\* the library, as it was when the call started, has an entry for the name
Resolvable(n) == n \in DOMAIN prev.instances \cup DOMAIN prev.subclasses

\* C26: after the summary stage of a project whose workflow has n paths,
\* the Summary holds exactly n Results, one per path, each under its own key
\* <prefix>_<ordinal> (a key is modelled by its ordinal).
C26_SummaryHoldsPaths ==
    last.op = "workflow_to_summary" =>
        /\ last.err = "ok"
        /\ DOMAIN ret.summary = 1..Len(paths(contents))

\* C27: in workflow_to_result a node that the library does not resolve is
\* skipped: execute is not called for it, no error leaves the call because
\* of it, and the nodes after it are still met in path order, every resolved
\* one executed and every outcome added to the Result.
C27_UnresolvedSkipped ==
    last.op = "workflow_to_result" =>
        /\ \A i \in DOMAIN ret.trace :
              /\ ret.trace[i].node = last.path[i]
              /\ ret.trace[i].executed = Resolvable(last.path[i])
              /\ ~Resolvable(last.path[i]) =>
                    /\ i = Len(ret.trace) => last.err = "ok"
                    /\ i < Len(last.path) => i + 1 \in DOMAIN ret.trace
        /\ Len(ret.result) =
              Cardinality({i \in DOMAIN ret.trace :
                  ret.trace[i].executed /\ ret.trace[i].err = "ok"})

\* a node that the library does not resolve was met, and the node after it
\* was executed, its implement called and its outcome added
C27_Witness ==
    /\ last.op = "workflow_to_result"
    /\ last.err = "ok"
    /\ \E i \in DOMAIN ret.trace :
        /\ ~Resolvable(last.path[i])
        /\ i + 1 \in DOMAIN ret.trace
        /\ ret.trace[i + 1].executed
        /\ ret.trace[i + 1].implemented > 0
        /\ ret.trace[i + 1].err = "ok"
    /\ Len(ret.result) > 0

\* C28: when the implement of a component raises, whatever the kind of
\* error, no later node of that path is executed.
C28_RaiseStopsPath ==
    last.op = "workflow_to_result" =>
        \A i \in DOMAIN ret.trace :
            (ret.trace[i].executed /\ ret.trace[i].err # "ok") =>
                \A j \in DOMAIN ret.trace : j > i => ~ret.trace[j].executed

\* C29: executing a path adds, replaces or removes no entry of the
\* instances and subclasses catalogs of the library.
C29_LibraryFrame ==
    last.op = "workflow_to_result" =>
        /\ instances = prev.instances
        /\ subclasses = prev.subclasses

-----------------------------------------------------------------------------
(* Further claims on the Workflow graph                                    *)

\* C31: in every state reached by add, connect and extend, every name in a
\* successor set is a node (key) of the graph, and the last node of a chain
\* that extend has added is an endpoint.
C31_SuccessorsAreNodes ==
    /\ \A k \in DOMAIN contents : contents[k] \subseteq DOMAIN contents
    /\ (last.op = "extend" /\ last.err = "ok") =>
          last.nodes[Len(last.nodes)] \in endpoints(contents)

-----------------------------------------------------------------------------
(* Claims on finalize_serial                                               *)

\* the nodes reachable from a name through a connections map in depth-first
\* pre-order: every child, directly followed by its own descendants
RECURSIVE Preorder(_, _)
RECURSIVE PreorderOf(_, _, _)
Preorder(name, m) ==
    IF name \in DOMAIN m THEN PreorderOf(m[name], m, 1) ELSE <<>>
PreorderOf(children, m, i) ==
    IF i > Len(children) THEN <<>>
    ELSE <<children[i]>> \o Preorder(children[i], m)
         \o PreorderOf(children, m, i + 1)

\* C32: finalize_serial raises no error and extends the graph with the
\* chain of all nodes reachable from the serial node through the
\* connections, in depth-first pre-order, the descendants of every child
\* directly after that child.
C32_SerialPreorder ==
    last.op = "finalize_serial" =>
        /\ last.err = "ok"
        /\ last.nodes = Preorder(last.node, last.connections)

-----------------------------------------------------------------------------
(* Claims on delete, merge and disconnect                                  *)

\* C33: delete(node) for a node of the graph removes that node and every edge
\* ending at it and leaves every other node with its successor set otherwise
\* unchanged; for a node not in the graph it raises KeyError and changes
\* nothing.
C33_DeleteRemovesNode ==
    last.op = "delete" =>
        IF last.x \in DOMAIN prev
        THEN /\ last.err = "ok"
             /\ contents = [k \in DOMAIN prev \ {last.x} |-> prev[k] \ {last.x}]
        ELSE /\ last.err = "KeyError"
             /\ contents = prev

\* the adjacency map the item of the last merge stands for
MergedAdjacency ==
    IF last.x = "node" THEN [k \in {last.y} |-> {}] ELSE last.item

\* C34: merge(item) only adds to the graph: every node and edge present before
\* the call is present after it, and so is every node and edge of the item,
\* also when the item and the workflow share nodes; an item of an unsupported
\* type raises TypeError and changes nothing.
C34_MergeOnlyAdds ==
    last.op = "merge" =>
        IF last.x = "other"
        THEN /\ last.err = "TypeError"
             /\ contents = prev
        ELSE /\ last.err = "ok"
             /\ \A k \in DOMAIN prev :
                    k \in DOMAIN contents /\ prev[k] \subseteq contents[k]
             /\ \A k \in DOMAIN MergedAdjacency :
                    /\ k \in DOMAIN contents
                    /\ MergedAdjacency[k] \subseteq contents[k]

\* C40: disconnect(start, stop) removes only the edge from start to stop and
\* leaves all nodes and all other edges unchanged; when start is not a node
\* of the graph it raises KeyError and adds no node.
C40_DisconnectRemovesEdge ==
    last.op = "disconnect" =>
        IF last.x \in DOMAIN prev
        THEN /\ last.err = "ok"
             /\ contents = [prev EXCEPT ![last.x] = @ \ {last.y}]
        ELSE /\ last.err = "KeyError"
             /\ contents = prev

-----------------------------------------------------------------------------
(* Claims on walk                                                          *)

\* a path of g from start to stop that contains no node twice
IsSimplePath(g, p, start, stop) ==
    /\ Len(p) >= 1
    /\ p[1] = start
    /\ p[Len(p)] = stop
    /\ \A i \in 1..(Len(p) - 1) : p[i] \in DOMAIN g /\ p[i + 1] \in g[p[i]]
    /\ \A i, j \in DOMAIN p : i # j => p[i] # p[j]

WalkReturnsPaths ==
    (last.op = "walk" /\ last.state = "returned") =>
        \A i \in DOMAIN ret :
            IsSimplePath(contents, ret[i], last.start, last.stop)

\* C38: walk(start, stop) terminates on every finite graph, also on one with
\* cycles, and every path it returns starts at start, ends at stop, follows
\* existing edges and contains no node twice.
C38_WalkTerminates ==
    /\ []WalkReturnsPaths
    /\ (last.op = "walk") ~> (last.state = "returned")

\* a walk has returned two paths or more from a node that lies on a cycle
C38_Witness ==
    /\ last.op = "walk"
    /\ last.state = "returned"
    /\ Len(ret) >= 2
    /\ last.start \in DOMAIN contents
    /\ last.start \in Descends(contents, last.start)

-----------------------------------------------------------------------------
(* Claims on Recipe.create                                                 *)

\* the names under which the catalog of components stores something
CatalogKeys == {objects[i].key : i \in DOMAIN objects}

\* C35: Recipe.create(path, components) maps every node name of path to the
\* component stored under that same name in components, whatever the order in
\* which components iterates and also when names of path are missing from it.
C35_RecipeMapsByName ==
    last.op = "create" =>
        \A n \in Range(last.path) \cap CatalogKeys :
            /\ n \in DOMAIN ret.contents
            /\ ret.contents[n] = Stored(n)

-----------------------------------------------------------------------------
(* Further claims on Parameters.finalize                                   *)

\* C36: finalize does not change the default mapping, and a value supplied
\* only as an override in an earlier call is absent from the result of a
\* later call made without that override: each call recomputes from its own
\* layers.
C36_DefaultKept ==
    last.op = "finalize" =>
        /\ parameters.default = prev.parameters.default
        /\ \A k \in DOMAIN parameters.contents :
               parameters.contents[k] = "kwargs" => k \in DOMAIN last.kwargs

-----------------------------------------------------------------------------
(* Claims on the readers of an Outline                                     *)

-----------------------------------------------------------------------------
(* Claims on Component.execute                                             *)

\* the iterations that the last call of execute runs with
Effective ==
    IF last.iterations.given THEN last.iterations ELSE objects[1].iterations

\* the calls of implement made so far, each but the last having returned
Threaded ==
    \A i \in DOMAIN last.calls :
        /\ last.calls[i].given =
              IF i = 1 THEN last.project ELSE last.calls[i - 1].returned
        /\ i < Len(last.calls) => last.calls[i].err = "ok"

ExecuteCounts ==
    last.op = "execute" =>
        /\ Threaded
        /\ objects[1].contents \in {PyNone, "none"} =>
              last.state = "returned" /\ last.calls = <<>>
                  /\ ret = last.project
        /\ (objects[1].contents \notin {PyNone, "none"}
            /\ last.state = "returned") =>
              /\ ~Effective.infinite
              /\ Len(last.calls) = Effective.count
              /\ ret = IF last.calls = <<>> THEN last.project
                       ELSE last.calls[Len(last.calls)].returned
        /\ last.state = "raised" =>
              IF last.calls = <<>>
              THEN last.err = objects[1].parameters.finalize
              ELSE last.err = last.calls[Len(last.calls)].err
                   /\ last.err # "ok"
        /\ ~Effective.infinite => Len(last.calls) <= Effective.count

====
